---- MODULE Spec2Model ----
(***************************************************************************)
(* Model of the VGN real-time dashboard back end:                          *)
(*   - vag_api_client.fetch_and_parse_departures   (departure fetcher)     *)
(*   - data_fetcher.fetch_nuremberg_stops_job/main (polling loop, cache)   *)
(*   - scripts/analysis_queries.py                 (delay engine, KPIs)    *)
(*                                                                         *)
(*   - run_nuremberg_dashboard.py                  (launcher)              *)
(*                                                                         *)
(* Six specifications share the definitions of this module:                *)
(*   SpecDelay  the delay engine applied to bounded cache payloads         *)
(*   SpecFetch  the fetcher applied to bounded stop ids and API outcomes   *)
(*   SpecQuery  the static queries applied to bounded database outcomes    *)
(*   Spec       the polling process writing the cache over time            *)
(*   SpecJob    the polling job called directly, run after run             *)
(*   SpecLaunch the launcher, its two child processes and its signals      *)
(***************************************************************************)
EXTENDS Integers, Sequences, FiniteSets, TLC

VARIABLES
    \* ---- delay engine (scripts/analysis_queries.py) ----
    data_strings,     \* what MGET returned for region_stop_ids, one entry per stop
    all_departures,   \* all_departures_list: the records parsed from the payloads
    df,               \* the DataFrame get_regional_departures_df returned
    live_df,          \* the DataFrame get_live_departures_for_stop returned
    kpis,             \* the dict calculate_regional_kpis returned
    delay_categories, \* the pd.cut result inside get_regional_delay_distribution
    dist,             \* the DataFrame get_regional_delay_distribution returned
    stage,            \* position of the reader: input, df, kpis, dist, done
    \* ---- one call of fetch_and_parse_departures (vag_api_client.py) ----
    f_stop_id,        \* the argument stop_id
    f_response,       \* what the HTTP request is going to meet
    f_url,            \* api_url, the URL requested
    f_result,         \* what the call returned (or that it raised)
    f_stage,          \* call, returned
    \* ---- the polling process (data_fetcher.py) and the cache ----
    all_stop_ids,     \* main: the list handed to every run of the job
    now,              \* the time, in ticks of half a second since the scheduler started
    next_fire,        \* the interval trigger's next fire time
    fires,            \* triggers fired so far
    skipped,          \* triggers dropped because the job was still running
    pc,               \* main, exited, stopped; or the job: idle, fetch, store, finish
    cycle,            \* runs of the job started so far
    cycle_start,      \* when the current run started
    api_mode,         \* how the API answers during the current run: fast, slow, quiet
    redis_connection, \* the job's local connection: TRUE, or FALSE for None
    stops_to_fetch,   \* the job's working set
    idx,              \* position of the loop in stops_to_fetch
    departures_data,  \* what the fetch of the current stop returned
    successful_fetches,
    total_departures_stored,
    cache,            \* the Redis keys "departures:<stop_id>"
    fetched,          \* per stop, what this run's fetch gave: pending, none, empty, list;
                      \* unstored once the write of a list raised
    completed,        \* the loop of this run has not been left by break
    last_write,       \* the latest redis_connection.set call that went through
    startup,          \* what main met: the database, Redis, the region's stops query
    exit_status,      \* the exit status of the process and the reason logged, once exited
    events,           \* the calls of the current run, in order
    history,          \* what the fetches of the current run returned, and the run before
    \* ---- the static queries (scripts/analysis_queries.py 95-262) ----
    engine,           \* the argument engine: TRUE, or FALSE for None
    database,         \* what the database does with the queries
    region_name,      \* the argument region_name of get_stops_by_region
    called,           \* the query functions that have returned
    stats,            \* what get_overview_stats returned
    route_type_counts, \* what get_route_type_counts returned
    top_routes,       \* what get_top_routes_by_trips returned
    stops_locations,  \* what get_all_stops_locations returned
    region_stop_ids,  \* what get_stops_by_region returned
    \* ---- the launcher (run_nuremberg_dashboard.py) ----
    l_pc,             \* position of main: check_redis, start_data_fetcher,
                      \* start_dashboard, monitor, finally, exited
    processes,        \* the global list processes
    child_state,      \* per child: unstarted, running, exited, terminated, killed
    signals,          \* the signals handled so far: where main was, and which signal
    polls,            \* iterations of the monitoring loop
    l_code            \* what main returned, once exited

delayVars == <<data_strings, all_departures, df, live_df, kpis, delay_categories, dist, stage>>
fetchVars == <<f_stop_id, f_response, f_url, f_result, f_stage>>
schedVars == <<now, next_fire, fires, skipped>>
jobVars == <<pc, cycle, cycle_start, api_mode, redis_connection, stops_to_fetch, idx,
             departures_data, successful_fetches, total_departures_stored>>
mainVars == <<startup, exit_status>>
pollVars == <<all_stop_ids, schedVars, jobVars, cache, fetched, completed, last_write,
              mainVars, events, history>>

queryVars == <<engine, database, region_name, called, stats, route_type_counts, top_routes,
               stops_locations, region_stop_ids>>

launchVars == <<l_pc, processes, child_state, signals, polls, l_code>>

vars == <<delayVars, fetchVars, pollVars, queryVars, launchVars>>

\* what each specification leaves alone
outsideDelay == <<fetchVars, pollVars, queryVars, launchVars>>
outsideFetch == <<delayVars, pollVars, queryVars, launchVars>>
outsidePoll == <<delayVars, fetchVars, queryVars, launchVars>>
outsideQuery == <<delayVars, fetchVars, pollVars, launchVars>>
outsideLaunch == <<delayVars, fetchVars, pollVars, queryVars>>

----------------------------------------------------------------------------
(* JSON values.  Every value is a record with a kind, so that any two can   *)
(* be compared.                                                            *)

Null == [kind |-> "null"]
Absent == [kind |-> "absent"]
Str(s) == [kind |-> "str", s |-> s]
\* an ISO-8601 timestamp text "....Thh:mm:ss+tz:00" of one fixed day
Iso(hh, mm, ss, tz) == [kind |-> "iso", hh |-> hh, mm |-> mm, ss |-> ss, tz |-> tz]

NA == [kind |-> "na"]
IntV(n) == [kind |-> "int", v |-> n]
NaT == [kind |-> "nat"]
Stamp(sec) == [kind |-> "ts", sec |-> sec]

\* the keys of a departure record, in the order the fetcher writes them
RecordKeys == <<"line", "destination", "scheduled_time", "actual_time", "platform">>

Departure(line, dest, sched, actual, platform) ==
    [line |-> line, destination |-> dest, scheduled_time |-> sched,
     actual_time |-> actual, platform |-> platform]

----------------------------------------------------------------------------
(* json.dumps / json.loads on a list of departure records.  The text is a  *)
(* sequence of tokens; a key whose value is Absent is not written.         *)

Punct(c) == [kind |-> "punct", s |-> c]
Key(k) == [kind |-> "key", s |-> k]

RECURSIVE DumpFieldsWithoutNulls(_, _)
DumpFieldsWithoutNulls(rec, i) ==
    IF i > Len(RecordKeys) THEN <<>>
    ELSE (IF rec[RecordKeys[i]] \in {Absent, Null} THEN <<>>
          ELSE <<Key(RecordKeys[i]), rec[RecordKeys[i]]>>) \o DumpFieldsWithoutNulls(rec, i + 1)

RECURSIVE DumpFields(_, _)
DumpFields(rec, i) ==
    IF i > Len(RecordKeys) THEN <<>>
    ELSE (IF rec[RecordKeys[i]] = Absent THEN <<>>
          ELSE <<Key(RecordKeys[i]), rec[RecordKeys[i]]>>) \o DumpFields(rec, i + 1)

DumpObject(rec) == <<Punct("{")>> \o DumpFields(rec, 1) \o <<Punct("}")>>

RECURSIVE DumpItems(_, _)
DumpItems(list, i) ==
    IF i > Len(list) THEN <<>> ELSE DumpObject(list[i]) \o DumpItems(list, i + 1)

JsonDumps(list) == <<Punct("[")>> \o DumpItems(list, 1) \o <<Punct("]")>>

EmptyObject == Departure(Absent, Absent, Absent, Absent, Absent)

JsonError == [ok |-> FALSE, isList |-> FALSE, val |-> <<>>, next |-> 0]

\* the members of one object, from token i on; next is the token after "}"
RECURSIVE ParseObject(_, _, _)
ParseObject(t, i, obj) ==
    IF i > Len(t) THEN JsonError
    ELSE IF t[i] = Punct("}") THEN [ok |-> TRUE, isList |-> FALSE, val |-> obj, next |-> i + 1]
    ELSE IF t[i].kind = "key" /\ i + 1 <= Len(t) /\ t[i + 1].kind \in {"null", "str", "iso"}
         THEN ParseObject(t, i + 2, [obj EXCEPT ![t[i].s] = t[i + 1]])
    ELSE JsonError

\* the items of the list, from token i on
RECURSIVE ParseItems(_, _, _)
ParseItems(t, i, acc) ==
    IF i > Len(t) THEN JsonError
    ELSE IF t[i] = Punct("]")
         THEN (IF i = Len(t) THEN [ok |-> TRUE, isList |-> TRUE, val |-> acc, next |-> i + 1]
               ELSE JsonError)
    ELSE IF t[i] = Punct("{")
         THEN LET r == ParseObject(t, i + 1, EmptyObject)
              IN IF r.ok THEN ParseItems(t, r.next, Append(acc, r.val)) ELSE JsonError
    ELSE JsonError

\* json.loads: ok = FALSE is JSONDecodeError; isList = FALSE is a JSON
\* document that is not a list (here: one object)
JsonLoads(t) ==
    IF Len(t) = 0 THEN JsonError
    ELSE IF t[1] = Punct("[") THEN ParseItems(t, 2, <<>>)
    ELSE IF t[1] = Punct("{")
         THEN LET r == ParseObject(t, 2, EmptyObject)
              IN IF r.ok /\ r.next = Len(t) + 1 THEN r ELSE JsonError
    ELSE JsonError

----------------------------------------------------------------------------
(* Constants of the delay analysis (analysis_queries.py 80-90).            *)

ON_TIME_THRESHOLD_MINUTES_LOW == -1
ON_TIME_THRESHOLD_MINUTES_HIGH == 3

\* the f-strings of DELAY_BUCKET_LABELS, evaluated with the thresholds above
DELAY_BUCKET_LABELS ==
    <<"< -1m (Early)", "-1m to +3m (On Time)", "+4m to +10m (Late)", "> +10m (Very Late)">>

NegInf == [kind |-> "neginf", v |-> 0]
PosInf == [kind |-> "posinf", v |-> 0]
Fin(n) == [kind |-> "fin", v |-> n]

DELAY_BUCKET_BINS_RightOpenMutant ==
    <<NegInf, Fin(ON_TIME_THRESHOLD_MINUTES_LOW), Fin(ON_TIME_THRESHOLD_MINUTES_HIGH + 1),
      Fin(11), PosInf>>

DELAY_BUCKET_BINS ==
    <<NegInf, Fin(ON_TIME_THRESHOLD_MINUTES_LOW - 1), Fin(ON_TIME_THRESHOLD_MINUTES_HIGH),
      Fin(10), PosInf>>

\* edge < x, for a bin edge and an integer
EdgeLess(e, x) == e.kind = "neginf" \/ (e.kind = "fin" /\ e.v < x)

----------------------------------------------------------------------------
(* DataFrames: rows in order, and the set of column names.  A row carries  *)
(* the five record keys (Absent is NaN) and delay_minutes.                 *)

Row(rec, d) ==
    [line |-> rec.line, destination |-> rec.destination, scheduled_time |-> rec.scheduled_time,
     actual_time |-> rec.actual_time, platform |-> rec.platform, delay_minutes |-> d]

EmptyFrame == [rows |-> <<>>, columns |-> {}]

\* pd.DataFrame(list of dicts): one column per key that occurs in some dict
DataFrame(list) ==
    [rows |-> [i \in 1..Len(list) |-> Row(list[i], NA)],
     columns |-> {RecordKeys[k] : k \in {j \in 1..Len(RecordKeys) :
                                          \E i \in 1..Len(list) : list[i][RecordKeys[j]] # Absent}}]

\* DataFrame.empty: some axis has length 0
IsEmpty(frame) == Len(frame.rows) = 0 \/ frame.columns = {}

ToDatetimeIgnoringOffset(v) ==
    IF v.kind = "iso" THEN Stamp(v.hh * 3600 + v.mm * 60 + v.ss) ELSE NaT

\* pd.to_datetime(v, errors='coerce', utc=True): seconds of the day in UTC, or NaT
ToDatetime(v) ==
    IF v.kind = "iso" THEN Stamp((v.hh - v.tz) * 3600 + v.mm * 60 + v.ss) ELSE NaT

RoundTruncating(sec) ==
    IF sec >= 0 THEN sec \div 60 ELSE -((-sec) \div 60)

\* (seconds / 60).round(): numpy rounds half to even
RoundMinutes(sec) ==
    LET q == sec \div 60
        r == sec % 60
    IN IF r < 30 THEN q
       ELSE IF r > 30 THEN q + 1
       ELSE IF q % 2 = 0 THEN q ELSE q + 1

\* one row's delay_minutes from its two parsed timestamps (both not NaT)
DelayOf(row) ==
    IntV(RoundMinutes(ToDatetime(row.actual_time).sec - ToDatetime(row.scheduled_time).sec))

BothParse(row) ==
    ToDatetime(row.scheduled_time) # NaT /\ ToDatetime(row.actual_time) # NaT

KeepAllRows(frame) == frame.rows

\* df.dropna(subset=['scheduled_dt', 'actual_dt'])
DropNaT(frame) == SelectSeq(frame.rows, BothParse)

\* the delay block shared by get_regional_departures_df (364-379) and
\* get_live_departures_for_stop (290-305)
WithDelays(frame) ==
    IF {"scheduled_time", "actual_time"} \subseteq frame.columns
    THEN LET kept == DropNaT(frame)
         IN [rows |-> [i \in 1..Len(kept) |->
                          IF BothParse(kept[i])
                          THEN [kept[i] EXCEPT !.delay_minutes = DelayOf(kept[i])]
                          ELSE kept[i]],
             columns |-> frame.columns \cup {"delay_minutes"}]
    ELSE [rows |-> frame.rows, columns |-> frame.columns \cup {"delay_minutes"}]

NoData == [present |-> FALSE, text |-> <<>>]
Data(text) == [present |-> TRUE, text |-> text]

\* "if data_string:" - a missing key and the empty string are both skipped
Truthy(ds) == ds.present /\ Len(ds.text) > 0

RECURSIVE CollectOrNothing(_, _)
CollectOrNothing(strings, i) ==
    IF i > Len(strings) THEN <<>>
    ELSE LET parsed == JsonLoads(strings[i].text)
         IN IF ~Truthy(strings[i]) THEN CollectOrNothing(strings, i + 1)
            ELSE IF parsed.ok /\ parsed.isList /\ \A j \in i + 1..Len(strings) :
                        Truthy(strings[j]) => JsonLoads(strings[j].text).ok
                 THEN parsed.val \o CollectOrNothing(strings, i + 1)
            ELSE <<>>

\* all_departures_list of get_regional_departures_df (344-355)
RECURSIVE CollectDepartures(_, _)
CollectDepartures(strings, i) ==
    IF i > Len(strings) THEN <<>>
    ELSE LET parsed == JsonLoads(strings[i].text)
         IN (IF Truthy(strings[i]) /\ parsed.ok /\ parsed.isList THEN parsed.val ELSE <<>>)
            \o CollectDepartures(strings, i + 1)

\* get_regional_departures_df, given the connection and what MGET returned
GetRegionalDeparturesDf(connected, stop_ids, strings) ==
    IF ~connected \/ Len(stop_ids) = 0 THEN EmptyFrame
    ELSE LET list == CollectDepartures(strings, 1)
         IN IF Len(list) > 0 THEN WithDelays(DataFrame(list)) ELSE EmptyFrame

\* get_live_departures_for_stop, given the connection and what GET returned
GetLiveDeparturesForStop(connected, ds) ==
    IF ~connected \/ ~Truthy(ds) THEN EmptyFrame
    ELSE LET parsed == JsonLoads(ds.text)
         IN IF parsed.ok /\ parsed.isList /\ Len(parsed.val) > 0
            THEN WithDelays(DataFrame(parsed.val))
            ELSE EmptyFrame

----------------------------------------------------------------------------
(* calculate_regional_kpis (395-429)                                       *)

None == [kind |-> "none", n |-> 0, d |-> 1]
\* a float that is the quotient n / d
Num(n, d) == [kind |-> "num", n |-> n, d |-> d]

RECURSIVE SumSeq(_, _)
SumSeq(s, i) == IF i > Len(s) THEN 0 ELSE s[i] + SumSeq(s, i + 1)

IsDefined(row) == row.delay_minutes.kind = "int"

\* departures_df['delay_minutes'].dropna(), as integers
ValidDelays(frame) ==
    LET kept == SelectSeq(frame.rows, IsDefined)
    IN [i \in 1..Len(kept) |-> kept[i].delay_minutes.v]

OnTimeCountStrict(valid_delays) ==
    Cardinality({i \in 1..Len(valid_delays) :
                    /\ valid_delays[i] > ON_TIME_THRESHOLD_MINUTES_LOW
                    /\ valid_delays[i] < ON_TIME_THRESHOLD_MINUTES_HIGH})

\* on_time_count (419-422)
OnTimeCount(valid_delays) ==
    Cardinality({i \in 1..Len(valid_delays) :
                    /\ valid_delays[i] >= ON_TIME_THRESHOLD_MINUTES_LOW
                    /\ valid_delays[i] <= ON_TIME_THRESHOLD_MINUTES_HIGH})

CalculateRegionalKpis(frame) ==
    LET kpis0 == [avg_delay |-> None, on_time_percent |-> None,
                  total_departures |-> Len(frame.rows), valid_delay_count |-> 0]
        valid_delays == ValidDelays(frame)
    IN IF IsEmpty(frame) \/ "delay_minutes" \notin frame.columns THEN kpis0
       ELSE IF Len(valid_delays) > 0
            THEN [kpis0 EXCEPT
                    !.valid_delay_count = Len(valid_delays),
                    !.avg_delay = Num(SumSeq(valid_delays, 1), Len(valid_delays)),
                    !.on_time_percent = Num(OnTimeCount(valid_delays) * 100, Len(valid_delays))]
            ELSE [kpis0 EXCEPT !.valid_delay_count = Len(valid_delays)]

----------------------------------------------------------------------------
(* get_regional_delay_distribution (431-460)                               *)

\* pd.cut(x, bins, labels, right=True): searchsorted gives the number of
\* edges below x; 0 and Len(bins) are outside every bin (NaN)
PdCut(x, bins, labels) ==
    LET below == Cardinality({j \in 1..Len(bins) : EdgeLess(bins[j], x)})
    IN IF below >= 1 /\ below <= Len(bins) - 1 THEN Str(labels[below]) ELSE NA

DelayCategories(frame) ==
    LET valid_delays == ValidDelays(frame)
    IN [i \in 1..Len(valid_delays) |->
           PdCut(valid_delays[i], DELAY_BUCKET_BINS, DELAY_BUCKET_LABELS)]

\* Series.value_counts() of a categorical: one count per category, NaN left out
ValueCounts(cats, labels) ==
    [l \in {labels[k] : k \in 1..Len(labels)} |->
        Cardinality({i \in 1..Len(cats) : cats[i] = Str(l)})]

ZeroDistribution ==
    [k \in 1..Len(DELAY_BUCKET_LABELS) |-> [category |-> DELAY_BUCKET_LABELS[k], count |-> 0]]

ObservedOnly(delay_counts) ==
    LET seen == SelectSeq(DELAY_BUCKET_LABELS, LAMBDA l : l \in DOMAIN delay_counts /\ delay_counts[l] > 0)
    IN [k \in 1..Len(seen) |-> [category |-> seen[k], count |-> delay_counts[seen[k]]]]

\* dist_df['count'] = delay_counts; fillna(0).astype(int)  (456-457)
AlignCounts(delay_counts) ==
    [k \in 1..Len(DELAY_BUCKET_LABELS) |->
        [category |-> DELAY_BUCKET_LABELS[k],
         count |-> IF DELAY_BUCKET_LABELS[k] \in DOMAIN delay_counts
                   THEN delay_counts[DELAY_BUCKET_LABELS[k]] ELSE 0]]

ObservedDistribution(frame) ==
    ObservedOnly(ValueCounts(DelayCategories(frame), DELAY_BUCKET_LABELS))

GetRegionalDelayDistribution(frame) ==
    IF IsEmpty(frame) \/ "delay_minutes" \notin frame.columns THEN ZeroDistribution
    ELSE IF Len(ValidDelays(frame)) = 0 THEN ZeroDistribution
    ELSE AlignCounts(ValueCounts(DelayCategories(frame), DELAY_BUCKET_LABELS))

----------------------------------------------------------------------------
(* fetch_and_parse_departures (vag_api_client.py 10-100).  A stop id is a  *)
(* sequence of characters.                                                 *)

StartsWith(s, prefix) ==
    Len(s) >= Len(prefix) /\ SubSeq(s, 1, Len(prefix)) = prefix

\* str.split(sep): the segments between separators, empty ones included
RECURSIVE Split(_, _, _)
Split(s, sep, current) ==
    IF Len(s) = 0 THEN <<current>>
    ELSE IF Head(s) = sep THEN <<current>> \o Split(Tail(s), sep, <<>>)
    ELSE Split(Tail(s), sep, Append(current, Head(s)))

NumericStopIdThreeParts(stop_id) ==
    IF StartsWith(stop_id, <<"d", "e", ":">>) /\ Len(Split(stop_id, ":", <<>>)) >= 3
    THEN Split(stop_id, ":", <<>>)[3]
    ELSE stop_id

\* numeric_stop_id (26-39); parts[2] is the third segment
NumericStopId(stop_id) ==
    IF StartsWith(stop_id, <<"d", "e", ":">>) /\ Len(Split(stop_id, ":", <<>>)) >= 4
    THEN Split(stop_id, ":", <<>>)[3]
    ELSE stop_id

\* api_base_url + "/abfahrten/VGN/", as the first element of a URL
ApiEndpoint == "https://start.vag.de/dm/api/v1/abfahrten/VGN/"

\* api_url (43)
ApiUrl(stop_id) == <<ApiEndpoint>> \o NumericStopId(stop_id)

\* a raw API departure: the five fields read from it (Absent when missing)
Raw(line, dest, soll, ist, steig) ==
    [isDict |-> TRUE, Linienname |-> line, Richtungstext |-> dest, AbfahrtszeitSoll |-> soll,
     AbfahrtszeitIst |-> ist, HaltesteigText |-> steig]
\* an item of the list that is no JSON object
NotADict == [isDict |-> FALSE, Linienname |-> Absent, Richtungstext |-> Absent,
             AbfahrtszeitSoll |-> Absent, AbfahrtszeitIst |-> Absent, HaltesteigText |-> Absent]

\* what requests.get meets: an exception of requests.get, an HTTP status with
\* a body that is no JSON, or a JSON body (an object, or something else)
\* field: whether the object's "Abfahrten" is "missing", "null" or a "list"
Failure(exc) ==
    [kind |-> exc, status |-> 0, json |-> FALSE, object |-> FALSE, field |-> "missing",
     abfahrten |-> <<>>]
Response(status, json, object, field, abfahrten) ==
    [kind |-> "response", status |-> status, json |-> json, object |-> object,
     field |-> field, abfahrten |-> abfahrten]

\* dict.get(key): None for a missing key
Get(v) == IF v = Absent THEN Null ELSE v

\* simplified_departure (66-73)
Simplify(raw) ==
    Departure(Get(raw.Linienname), Get(raw.Richtungstext), Get(raw.AbfahrtszeitSoll),
              Get(raw.AbfahrtszeitIst), Get(raw.HaltesteigText))

Returned(list) == [raised |-> FALSE, exc |-> "", isNone |-> FALSE, list |-> list]
ReturnedNone == [raised |-> FALSE, exc |-> "", isNone |-> TRUE, list |-> <<>>]
Raised(exc) == [raised |-> TRUE, exc |-> exc, isNone |-> FALSE, list |-> <<>>]

\* the try block (49-77): the list returned, or the exception raised in it.
\* get("Abfahrten", []) gives [] for a missing key; the loop cannot iterate
\* over null, and get() of an item that is no dict fails
TryFetchNoDefault(resp) ==
    IF resp.kind # "response" THEN Raised(resp.kind)
    ELSE IF resp.status >= 400 THEN Raised("HTTPError")
    ELSE IF ~resp.json THEN Raised("JSONDecodeError")
    ELSE IF ~resp.object THEN Raised("AttributeError")
    ELSE IF resp.field = "missing" THEN Raised("TypeError")
    ELSE IF resp.field = "null" THEN Raised("TypeError")
    ELSE IF \E i \in 1..Len(resp.abfahrten) : ~resp.abfahrten[i].isDict
         THEN Raised("AttributeError")
    ELSE Returned([i \in 1..Len(resp.abfahrten) |-> Simplify(resp.abfahrten[i])])

TryFetch(resp) ==
    IF resp.kind # "response" THEN Raised(resp.kind)
    ELSE IF resp.status >= 400 THEN Raised("HTTPError")
    ELSE IF ~resp.json THEN Raised("JSONDecodeError")
    ELSE IF ~resp.object THEN Raised("AttributeError")
    ELSE IF resp.field = "missing" THEN Returned(<<>>)
    ELSE IF resp.field = "null" THEN Raised("TypeError")
    ELSE IF \E i \in 1..Len(resp.abfahrten) : ~resp.abfahrten[i].isDict
         THEN Raised("AttributeError")
    ELSE Returned([i \in 1..Len(resp.abfahrten) |-> Simplify(resp.abfahrten[i])])

HandleWithoutCatchAll(outcome) ==
    IF outcome.raised /\ outcome.exc \in {"Timeout", "HTTPError", "ConnectionError", "JSONDecodeError"}
    THEN ReturnedNone
    ELSE outcome

\* the except clauses (80-100): Timeout, HTTPError, RequestException,
\* JSONDecodeError, and Exception for everything else
Handle(outcome) ==
    IF outcome.raised THEN ReturnedNone ELSE outcome

FetchAndParseDepartures(stop_id, resp) == Handle(TryFetch(resp))

----------------------------------------------------------------------------
(* Bounded inputs of the delay engine.                                     *)

\* records per cached stop list
MaxRecords == 2

\* actual - scheduled, in seconds: half-minute ties (-90, 30, 90, 210), the
\* bucket edges (-2/-1, 3/4, 10/11 minutes) and an off-tie value (50)
DelaySeconds == {-90, -60, 30, 50, 90, 180, 210, 600, 660}

\* 12:00:00+02:00
ScheduledText == Iso(12, 0, 0, 2)

\* the instant sec seconds after ScheduledText, written in UTC
ActualText(sec) ==
    LET t == 10 * 3600 + sec
    IN Iso(t \div 3600, (t % 3600) \div 60, t % 60, 0)

TimedDeparture(sec) == Departure(Str("U1"), Str("Hbf"), ScheduledText, ActualText(sec), Str("1"))

RecordChoices ==
    {TimedDeparture(sec) : sec \in DelaySeconds}
    \cup {Departure(Str("U1"), Str("Hbf"), Null, ActualText(0), Null),
          Departure(Str("U1"), Str("Hbf"), ScheduledText, Str("n/a"), Null),
          Departure(Str("U1"), Str("Hbf"), Absent, Absent, Absent)}

ListsUpTo(S, n) == UNION {[1..k -> S] : k \in 0..n}

\* payloads of the second stop: a miss, "[]", a truncated text, "{}", one record
OtherPayloads ==
    {NoData, Data(JsonDumps(<<>>)), Data(<<Punct("[")>>), Data(DumpObject(EmptyObject)),
     Data(JsonDumps(<<TimedDeparture(240)>>))}

S510 == <<"5", "1", "0">>
S546 == <<"5", "4", "6">>
S3151 == <<"3", "1", "5", "1">>

\* the stops the reader asks for
RegionStopIds == <<S510, S546>>

----------------------------------------------------------------------------
(* Bounded inputs of the fetcher.                                          *)

\* raw departures per API response
MaxRaw == 2

G510 == <<"d", "e", ":", "0", "9", "5", "6", "4", ":", "5", "1", "0">>
G510_11_1 == G510 \o <<":", "1", "1", ":", "1">>
G510_11_2 == G510 \o <<":", "1", "1", ":", "2">>
G704_1 == <<"d", "e", ":", "0", "9", "5", "6", "4", ":", "7", "0", "4", ":", "1">>
GRegion == <<"d", "e", ":", "0", "9", "5", "6", "4">>
GSchema == <<"d", "e", ":">>

\* bare numeric ids, GTFS ids of five, four and three segments, and shorter
FetchStopIds == {S510, S3151, G510_11_1, G704_1, G510, GRegion, GSchema}

RawChoices ==
    {Raw(Str("U1"), Str("Hbf"), ScheduledText, ActualText(90), Str("1")),
     Raw(Str("U1"), Absent, ScheduledText, Absent, Absent),
     NotADict}

ResponseChoices ==
    {Failure("Timeout"), Failure("ConnectionError"),
     Response(404, TRUE, TRUE, "missing", <<>>),
     Response(500, FALSE, FALSE, "missing", <<>>),
     Response(200, FALSE, FALSE, "missing", <<>>),
     Response(200, TRUE, FALSE, "missing", <<>>),
     Response(200, TRUE, TRUE, "missing", <<>>),
     Response(200, TRUE, TRUE, "null", <<>>)}
    \cup {Response(200, TRUE, TRUE, "list", l) : l \in ListsUpTo(RawChoices, MaxRaw)}

----------------------------------------------------------------------------
(* The polling process: main and fetch_nuremberg_stops_job                 *)
(* (data_fetcher.py), the interval trigger, and the Redis keys.            *)

\* the clock counts half seconds, the length of time.sleep(0.5)
TicksPerSecond == 2
SleepTicks == 1

FETCH_INTERVAL_SECONDS == 60

REDIS_EXPIRY_BelowInterval == FETCH_INTERVAL_SECONDS - 30

REDIS_EXPIRY == FETCH_INTERVAL_SECONDS + 30

\* requests.get(api_url, timeout=10)
RequestTimeoutSeconds == 10

\* ordered_stops[:50]
WorkingSetLimit == 50

IntervalTicks == FETCH_INTERVAL_SECONDS * TicksPerSecond

S511 == <<"5", "1", "1">>
S512 == <<"5", "1", "2">>
S513 == <<"5", "1", "3">>
S514 == <<"5", "1", "4">>
S515 == <<"5", "1", "5">>

priority_stops == <<S510, S546, S3151>>
fallback_ids == <<S546, S510, S511, S512, S513, S514, S515>>
\* the ids get_stops_by_region appends for Nuremberg (analysis_queries.py 258)
numeric_stop_ids == <<S510, S546, S3151>>

Range(seq) == {seq[k] : k \in 1..Len(seq)}
Min(a, b) == IF a < b THEN a ELSE b

\* main's redis_conn: main exits unless get_redis_conn() gave a connection
redis_conn == TRUE

\* the reordered list, not truncated
OrderedStops(stop_ids) ==
    priority_stops \o SelectSeq(stop_ids, LAMBDA s : s \notin Range(priority_stops))

\* stops_to_fetch (64-69)
StopsToFetch(stop_ids) ==
    LET remaining_stops == SelectSeq(stop_ids, LAMBDA s : s \notin Range(priority_stops))
        ordered_stops == priority_stops \o remaining_stops
    IN SubSeq(ordered_stops, 1, Min(Len(ordered_stops), WorkingSetLimit))

WriterKeyOfNumericId(stop_id) == <<"departures:">> \o NumericStopId(stop_id)

\* redis_key = f"departures:{stop_id}" (data_fetcher.py 83)
WriterKey(stop_id) == <<"departures:">> \o stop_id

\* f"departures:{stop_id}" (analysis_queries.py 275, 336)
ReaderKey(stop_id) == <<"departures:">> \o stop_id

\* a key of the cache: its text and expiry time while present, and the time
\* and the run of its last write
Entry(text, at, expires, run) ==
    [present |-> TRUE, text |-> text, at |-> at, expires |-> expires, cycle |-> run]
Expired(at, run) == [present |-> FALSE, text |-> <<>>, at |-> at, expires |-> 0, cycle |-> run]

KeepKeys(c, t) == c

\* Redis drops a key once its expiry time is reached
Purge(c, t) ==
    [k \in DOMAIN c |-> IF c[k].present /\ c[k].expires <= t THEN Expired(c[k].at, c[k].cycle) ELSE c[k]]

\* the text is added to the text the key holds
RedisAppend(c, key, text, ex, t, run) ==
    [k \in DOMAIN c \cup {key} |->
        IF k = key
        THEN Entry((IF key \in DOMAIN c /\ c[key].present THEN c[key].text ELSE <<>>) \o text,
                   t, t + ex * TicksPerSecond, run)
        ELSE c[k]]

\* SET key value EX seconds, at time t
RedisSet(c, key, text, ex, t, run) ==
    [k \in DOMAIN c \cup {key} |->
        IF k = key THEN Entry(text, t, t + ex * TicksPerSecond, run) ELSE c[k]]

\* GET key
RedisGet(c, key) ==
    IF key \in DOMAIN c /\ c[key].present THEN Data(c[key].text) ELSE NoData

ShouldStoreNotNone(data) == ~data.isNone

\* "departures_data is not None and len(departures_data) > 0" (79)
ShouldStore(data) == ~data.isNone /\ Len(data.list) > 0

NoWrite == [stop |-> <<>>, key |-> <<>>, list |-> <<>>, text |-> <<>>, ex |-> 0, at |-> 0,
            cycle |-> 0, replaced |-> Expired(0, 0)]

----------------------------------------------------------------------------
(* The static queries (analysis_queries.py 95-262).  The database runs    *)
(* the SQL; a query gives its rows or raises.                              *)

\* what executing a query gives: its rows, or an exception
QueryRows(rows) == [ok |-> TRUE, rows |-> rows]
QueryFails == [ok |-> FALSE, rows |-> <<>>]

\* stats before any count is read (98)
NoStats == [total_routes |-> Str("N/A"), total_stops |-> Str("N/A"), total_trips |-> Str("N/A")]

\* scalar_one_or_none() or 0, of a query that gave rows
ScalarOrZero(outcome) ==
    IF Len(outcome.rows) = 0 \/ outcome.rows[1] = Null THEN IntV(0) ELSE outcome.rows[1]

\* get_overview_stats: the three counts are read in turn, and the first
\* query that raises leaves the later ones at 'N/A' (102-112)
GetOverviewStats(eng, routes, stops, trips) ==
    IF ~eng THEN NoStats
    ELSE IF ~routes.ok THEN NoStats
    ELSE IF ~stops.ok THEN [NoStats EXCEPT !.total_routes = ScalarOrZero(routes)]
    ELSE IF ~trips.ok
         THEN [NoStats EXCEPT !.total_routes = ScalarOrZero(routes),
                              !.total_stops = ScalarOrZero(stops)]
    ELSE [total_routes |-> ScalarOrZero(routes), total_stops |-> ScalarOrZero(stops),
          total_trips |-> ScalarOrZero(trips)]

\* a result frame: its rows and its columns
Frame(rows, columns) == [rows |-> rows, columns |-> columns]

\* ROUTE_TYPE_MAP (67-78), and 'Other/<type>' for a type it lacks (125)
ROUTE_TYPE_MAP ==
    [t \in {0, 1, 2, 3, 4, 5, 6, 7, 11, 12} |->
        CASE t = 0 -> "Tram" [] t = 1 -> "Subway (U-Bahn)" [] t = 2 -> "Rail (S-Bahn/Regional)"
          [] t = 3 -> "Bus" [] t = 4 -> "Ferry" [] t = 5 -> "Cable Tram" [] t = 6 -> "Aerial Lift"
          [] t = 7 -> "Funicular" [] t = 11 -> "Trolleybus" [] t = 12 -> "Monorail"]
RouteTypeName(t) ==
    IF t \in DOMAIN ROUTE_TYPE_MAP THEN <<ROUTE_TYPE_MAP[t]>> ELSE <<"Other/", t>>

\* get_route_type_counts (114-130)
GetRouteTypeCounts(eng, outcome) ==
    LET empty_df == Frame(<<>>, {"route_type_name", "count"})
    IN IF ~eng \/ ~outcome.ok THEN empty_df
       ELSE Frame([i \in 1..Len(outcome.rows) |->
                      [route_type_name |-> RouteTypeName(outcome.rows[i].route_type),
                       count |-> outcome.rows[i].count]],
                  {"route_type_name", "count"})

\* fillna('')
FillNa(v) == IF v = Null THEN <<>> ELSE <<v.s>>

\* route_display_name (149-150): short + ' (' + long + ')', and the whole
\* value '()' replaced by ''
RouteDisplayName(short, long) ==
    IF FillNa(short) = <<>> /\ FillNa(long) = <<>> THEN <<>>
    ELSE FillNa(short) \o <<" (">> \o FillNa(long) \o <<")">>

\* get_top_routes_by_trips (132-155)
GetTopRoutesByTrips(eng, top_n, outcome) ==
    LET empty_df == Frame(<<>>, {"route_display_name", "trip_count"})
    IN IF ~eng \/ ~outcome.ok THEN empty_df
       ELSE Frame([i \in 1..Len(outcome.rows) |->
                      [route_display_name |->
                          RouteDisplayName(outcome.rows[i].route_short_name,
                                           outcome.rows[i].route_long_name),
                       trip_count |-> outcome.rows[i].trip_count]],
                  {"route_display_name", "trip_count"})

\* get_all_stops_locations (157-177)
GetAllStopsLocations(eng, outcome) ==
    IF ~eng \/ ~outcome.ok THEN Frame(<<>>, {"stop_id", "stop_name", "stop_lat", "stop_lon"})
    ELSE Frame(outcome.rows, {"stop_id", "stop_name", "stop_lat", "stop_lon"})

REGION_NAME == "Nuremberg"

\* the keys of prefix_map (225-230)
prefix_map == {"Nuremberg", "Fürth", "Erlangen"}

\* get_stops_by_region(engine, region_name), given what the query gives
GetStopsByRegion(eng, region, outcome) ==
    IF ~eng THEN <<>>
    ELSE IF region \notin prefix_map THEN <<>>
    ELSE LET stop_ids == IF outcome.ok THEN outcome.rows ELSE <<>>
         IN IF region = "Nuremberg" THEN stop_ids \o numeric_stop_ids ELSE stop_ids

----------------------------------------------------------------------------
(* Startup of the polling process: get_engine (db_utils.py 16-57) and      *)
(* get_redis_conn (analysis_queries.py 48-64).                             *)

\* the database as get_engine meets it
DbStates == {"ok", "unreachable", "missing_variable", "wrong_type"}

\* get_engine returns an engine or raises (KeyError, ConnectionError, ValueError)
GetEngineRaises(db) == db # "ok"

\* Redis as get_redis_conn meets it: no pool was created, the ping fails, or it answers
RedisStates == {"ok", "no_pool", "no_ping"}

\* get_redis_conn returns a connection (TRUE) or None (FALSE)
GetRedisConn(r) == r = "ok"

NotExited == [code |-> 0, logged |-> ""]
\* exit(1) after logger.critical, or an uncaught exception after logger.error
Exited(reason) == [code |-> 1, logged |-> reason]

----------------------------------------------------------------------------
(* Bounded environment of the polling process.                             *)

\* triggers of the interval trigger that are followed
MaxFires == 3

Digits == <<"0", "1", "2", "3", "4", "5", "6", "7", "8", "9">>

\* the GTFS id "de:09564:<n>:1:1" of the stop with the three-digit number n
GStop(n) ==
    GRegion \o <<":", Digits[(n \div 100) + 1], Digits[((n \div 10) % 10) + 1],
                Digits[(n % 10) + 1], ":", "1", ":", "1">>

\* stops of a region with more stops than the working set takes
MaxRegionStops == 45
LongRegion == [i \in 1..MaxRegionStops |-> GStop(600 + i)]

\* the region's GTFS stop ids the stops table holds
RegionIdChoices == {<<>>, <<G510_11_1>>, <<G510_11_1, G704_1>>, LongRegion}

\* what the region's stops query gives at startup
StartupQueries == {QueryRows(rows) : rows \in RegionIdChoices} \cup {QueryFails}

\* orders list(set(...)) may give the union with the fallback ids
StopIdLists ==
    {<<G510_11_1, S510, S546, S3151, S511, S512, S513, S514, S515>>,
     <<S515, S514, S513, S512, S511, S3151, S546, S510, G704_1, G510_11_1>>,
     <<S511, S3151, S512, S546, S513, S510, S514, S515>>,
     <<S511>> \o LongRegion \o <<S3151, S512, S546, S513, S510, S514, S515>>}

IsListOfSet(list, set) == Range(list) = set /\ Len(list) = Cardinality(set)

\* all_stop_ids = list(set(nuremberg_stop_ids + fallback_ids)) (149)
AllStopIds(nuremberg_stop_ids) ==
    {l \in StopIdLists : IsListOfSet(l, Range(nuremberg_stop_ids) \cup Range(fallback_ids))}

\* during one run the API answers at once, or only just within the timeout,
\* or at once with no departure for any stop
ApiModes == {"fast", "slow", "quiet"}
FetchTicks(mode) == IF mode = "slow" THEN RequestTimeoutSeconds * TicksPerSecond ELSE 0

RawA == <<Raw(Str("U1"), Str("Hbf"), ScheduledText, ActualText(90), Str("1"))>>
RawB == <<Raw(Str("U2"), Str("Flughafen"), ScheduledText, ActualText(210), Absent),
          Raw(Str("U2"), Absent, ScheduledText, Absent, Absent)>>

\* the answers of the API: any of these for the stops in VaryingStops, the
\* one-departure list for every other stop
VaryingStops == {S510, G510_11_1}
ApiResponses(stop) ==
    IF stop = S510
    THEN {Failure("Timeout"), Response(200, TRUE, TRUE, "missing", <<>>),
          Response(200, TRUE, TRUE, "list", RawA), Response(200, TRUE, TRUE, "list", RawB)}
    ELSE IF stop \in VaryingStops
    THEN {Response(200, TRUE, TRUE, "list", <<>>), Response(200, TRUE, TRUE, "list", RawA)}
    ELSE {Response(200, TRUE, TRUE, "list", RawA)}

\* the answers in a run of the given mode
ApiAnswers(mode, stop) ==
    IF mode = "quiet" THEN {Response(200, TRUE, TRUE, "list", <<>>)} ELSE ApiResponses(stop)

\* the stops at whose write the Redis server may be unreachable or refuse
StoreFaultStops == {S510}

----------------------------------------------------------------------------
(* The state of each part while a specification leaves it alone.           *)

\* the reader before any read
DelayIdle ==
    /\ all_departures = <<>>
    /\ df = EmptyFrame
    /\ live_df = EmptyFrame
    /\ kpis = CalculateRegionalKpis(EmptyFrame)
    /\ delay_categories = <<>>
    /\ dist = ZeroDistribution

\* no call of the fetcher under way
FetchIdle ==
    /\ f_stop_id = <<>>
    /\ f_response = Failure("Timeout")
    /\ f_url = <<>>
    /\ f_result = ReturnedNone
    /\ f_stage = "idle"

\* no static query made
QueryIdle ==
    /\ engine = FALSE
    /\ database = [fault |-> "none", filled |-> FALSE]
    /\ region_name = REGION_NAME
    /\ called = {}
    /\ stats = NoStats
    /\ route_type_counts = GetRouteTypeCounts(FALSE, QueryFails)
    /\ top_routes = GetTopRoutesByTrips(FALSE, 0, QueryFails)
    /\ stops_locations = GetAllStopsLocations(FALSE, QueryFails)
    /\ region_stop_ids = <<>>

\* no run yet
NoHistory ==
    [results |-> <<>>,
     previous |-> [cycle |-> 0, stops |-> <<>>, results |-> <<>>, stored |-> TRUE,
                   written |-> {}, values |-> <<>>]]

\* the job's locals and the scheduler before the first trigger
BeforeFirstRun ==
    /\ all_stop_ids = <<>>
    /\ now = 0
    /\ next_fire = IntervalTicks
    /\ fires = 0
    /\ skipped = 0
    /\ cycle = 0
    /\ cycle_start = 0
    /\ api_mode = "fast"
    /\ redis_connection = redis_conn
    /\ stops_to_fetch = <<>>
    /\ idx = 0
    /\ departures_data = ReturnedNone
    /\ successful_fetches = 0
    /\ total_departures_stored = 0
    /\ cache = <<>>
    /\ fetched = <<>>
    /\ completed = TRUE
    /\ last_write = NoWrite
    /\ startup = [db |-> "ok", redis |-> "ok", query |-> QueryFails]
    /\ exit_status = NotExited
    /\ events = <<>>
    /\ history = NoHistory

\* the polling process not started
PollIdle ==
    /\ BeforeFirstRun
    /\ pc = "off"

\* the two children of the launcher
ChildNames == {"data_fetcher", "dashboard"}

\* the launcher before it has started a child
NothingLaunched ==
    /\ processes = <<>>
    /\ child_state = [c \in ChildNames |-> "unstarted"]
    /\ signals = <<>>
    /\ polls = 0
    /\ l_code = 0

\* the launcher not started
LaunchIdle ==
    /\ NothingLaunched
    /\ l_pc = "off"

----------------------------------------------------------------------------
(* Spec: the polling process.                                              *)

InitPoll ==
    /\ BeforeFirstRun
    /\ pc = "main"

Init ==
    /\ InitPoll
    /\ LaunchIdle
    /\ data_strings = <<NoData, NoData>>
    /\ DelayIdle
    /\ stage = "idle"
    /\ FetchIdle
    /\ QueryIdle

\* main up to scheduler.add_job (121-166): it exits when get_engine raises,
\* when there is no Redis connection, or when the region has no stop ids
Main ==
    /\ pc = "main"
    /\ \E db \in DbStates, r \in RedisStates, query \in StartupQueries :
          LET nuremberg_stop_ids == GetStopsByRegion(TRUE, REGION_NAME, query)
          IN /\ startup' = [db |-> db, redis |-> r, query |-> query]
             /\ IF GetEngineRaises(db)
                THEN /\ exit_status' = Exited("CRITICAL: PostgreSQL connection failed")
                     /\ pc' = "exited"
                     /\ UNCHANGED all_stop_ids
                ELSE IF ~GetRedisConn(r)
                THEN /\ exit_status' = Exited("Could not connect to Redis. Fetcher cannot start.")
                     /\ pc' = "exited"
                     /\ UNCHANGED all_stop_ids
                ELSE IF Len(nuremberg_stop_ids) = 0
                THEN /\ exit_status' = Exited("Could not find any stop IDs")
                     /\ pc' = "exited"
                     /\ UNCHANGED all_stop_ids
                ELSE /\ all_stop_ids' \in AllStopIds(nuremberg_stop_ids)
                     /\ pc' = "idle"
                     /\ UNCHANGED exit_status
    /\ UNCHANGED <<schedVars, cycle, cycle_start, api_mode, redis_connection, stops_to_fetch, idx,
                   departures_data, successful_fetches, total_departures_stored, cache, fetched,
                   completed, last_write, events, history>>
    /\ UNCHANGED outsidePoll

TwoInstances == 1 + 1

\* max_instances=1 (164)
max_instances == 1

SchedulerRunningThoughInterrupted == pc \in {"idle", "fetch", "store", "finish"}

\* the scheduler is running and its main loop has not been interrupted
SchedulerRunning == pc \in {"idle", "fetch", "store", "finish"} /\ exit_status = NotExited

\* the instances of the job that are running
Instances == IF pc \in {"fetch", "store", "finish"} THEN 1 ELSE 0

TriggerDue == SchedulerRunning /\ fires < MaxFires /\ now >= next_fire

\* the scheduler sleeps until the trigger's next fire time
Wait ==
    /\ pc = "idle"
    /\ fires < MaxFires
    /\ now < next_fire
    /\ now' = next_fire
    /\ cache' = Purge(cache, next_fire)
    /\ UNCHANGED <<all_stop_ids, next_fire, fires, skipped, jobVars, fetched, completed, last_write,
                   mainVars, events, history>>
    /\ UNCHANGED outsidePoll

\* the call of the job with its connection argument, and its call of
\* get_redis_conn
CallEvent(connection) == [op |-> "call", stop |-> <<>>, connection |-> connection]
ReconnectEvent == [op |-> "reconnect", stop |-> <<>>]

\* the job never calls get_redis_conn
BeginJobNoReconnect(stop_ids, connection) ==
    /\ cycle' = cycle + 1
    /\ cycle_start' = now
    /\ redis_connection' = connection
    /\ events' = <<CallEvent(connection)>>
    /\ IF Len(stop_ids) = 0 \/ ~connection
       THEN pc' = "finish" /\ stops_to_fetch' = <<>> /\ idx' = 0
       ELSE pc' = "fetch" /\ stops_to_fetch' = StopsToFetch(stop_ids) /\ idx' = 1
    /\ fetched' = [s \in Range(stops_to_fetch') |-> "pending"]
    /\ completed' = TRUE
    /\ departures_data' = ReturnedNone
    /\ successful_fetches' = 0
    /\ total_departures_stored' = 0
    /\ history' = [history EXCEPT !.results = <<>>]

\* fetch_nuremberg_stops_job(stop_ids, redis_connection) up to its loop
\* (39-71): it returns at once for an empty stop list (47-49); without a
\* connection it calls get_redis_conn() once and returns if that gives None
\* (51-57)
BeginJob(stop_ids, connection) ==
    /\ cycle' = cycle + 1
    /\ cycle_start' = now
    /\ \E r \in RedisStates :
          LET attempt == Len(stop_ids) > 0 /\ ~connection
              redis_connection_now == IF attempt THEN GetRedisConn(r) ELSE connection
          IN /\ redis_connection' = redis_connection_now
             /\ events' = <<CallEvent(connection)>>
                             \o (IF attempt THEN <<ReconnectEvent>> ELSE <<>>)
             /\ IF Len(stop_ids) = 0 \/ ~redis_connection_now
                THEN /\ pc' = "finish"
                     /\ stops_to_fetch' = <<>>
                     /\ idx' = 0
                ELSE /\ pc' = "fetch"
                     /\ stops_to_fetch' = StopsToFetch(stop_ids)
                     /\ idx' = 1
    /\ fetched' = [s \in Range(stops_to_fetch') |-> "pending"]
    /\ completed' = TRUE
    /\ departures_data' = ReturnedNone
    /\ successful_fetches' = 0
    /\ total_departures_stored' = 0
    /\ history' = [history EXCEPT !.results = <<>>]

\* the trigger fires with fewer than max_instances runs under way: the
\* scheduler calls the job with args=[all_stop_ids, redis_conn] (157-166)
StartCycle ==
    /\ TriggerDue
    /\ Instances < max_instances
    /\ next_fire' = next_fire + IntervalTicks
    /\ fires' = fires + 1
    /\ api_mode' \in ApiModes
    /\ BeginJob(all_stop_ids, redis_conn)
    /\ UNCHANGED <<all_stop_ids, now, skipped, cache, last_write, mainVars>>
    /\ UNCHANGED outsidePoll

\* the trigger fires with max_instances runs under way: it is dropped (164)
SkipTrigger ==
    /\ TriggerDue
    /\ Instances >= max_instances
    /\ next_fire' = next_fire + IntervalTicks
    /\ fires' = fires + 1
    /\ skipped' = skipped + 1
    /\ UNCHANGED <<all_stop_ids, now, jobVars, cache, fetched, completed, last_write, mainVars,
                   events, history>>
    /\ UNCHANGED outsidePoll

FetchEvent(stop_id) == [op |-> "fetch", stop |-> stop_id]
SetEvent(stop_id) == [op |-> "set", stop |-> stop_id]

\* departures_data = fetch_and_parse_departures(stop_id) (77)
FetchStop ==
    /\ pc = "fetch"
    /\ ~TriggerDue
    /\ \E resp \in ApiAnswers(api_mode, stops_to_fetch[idx]) :
          departures_data' = FetchAndParseDepartures(stops_to_fetch[idx], resp)
    /\ fetched' = [fetched EXCEPT ![stops_to_fetch[idx]] =
                      IF departures_data'.isNone THEN "none"
                      ELSE IF Len(departures_data'.list) = 0 THEN "empty" ELSE "list"]
    /\ events' = Append(events, FetchEvent(stops_to_fetch[idx]))
    /\ history' = [history EXCEPT !.results = Append(@, departures_data')]
    /\ now' = now + FetchTicks(api_mode)
    /\ cache' = Purge(cache, now')
    /\ pc' = "store"
    /\ UNCHANGED <<all_stop_ids, next_fire, fires, skipped, cycle, cycle_start, api_mode,
                   redis_connection, stops_to_fetch, idx, successful_fetches,
                   total_departures_stored, completed, last_write, mainVars>>
    /\ UNCHANGED outsidePoll

SleepAndRepeatFailed(c) ==
    /\ now' = now + SleepTicks
    /\ cache' = Purge(c, now + SleepTicks)
    /\ idx' = IF departures_data.isNone THEN idx ELSE idx + 1
    /\ pc' = IF idx' > Len(stops_to_fetch) THEN "finish" ELSE "fetch"

\* time.sleep(0.5) and the next iteration of the loop (110, 73)
SleepAndAdvance(c) ==
    /\ now' = now + SleepTicks
    /\ cache' = Purge(c, now + SleepTicks)
    /\ idx' = idx + 1
    /\ pc' = IF idx = Len(stops_to_fetch) THEN "finish" ELSE "fetch"

\* the set call goes through (82-96)
StoreOk ==
    /\ pc = "store"
    /\ ~TriggerDue
    /\ ShouldStore(departures_data)
    /\ LET stop_id == stops_to_fetch[idx]
           json_data == JsonDumps(departures_data.list)
           redis_key == WriterKey(stop_id)
       IN /\ SleepAndAdvance(RedisSet(cache, redis_key, json_data, REDIS_EXPIRY, now, cycle))
          /\ last_write' = [stop |-> stop_id, key |-> redis_key, list |-> departures_data.list,
                            text |-> json_data, ex |-> REDIS_EXPIRY, at |-> now, cycle |-> cycle,
                            replaced |-> IF redis_key \in DOMAIN cache THEN cache[redis_key]
                                         ELSE Expired(0, 0)]
          /\ events' = Append(events, SetEvent(stop_id))
    /\ successful_fetches' = successful_fetches + 1
    /\ total_departures_stored' = total_departures_stored + Len(departures_data.list)
    /\ UNCHANGED <<all_stop_ids, next_fire, fires, skipped, cycle, cycle_start, api_mode,
                   redis_connection, stops_to_fetch, departures_data, fetched, completed,
                   mainVars, history>>
    /\ UNCHANGED outsidePoll

\* the set call raises, and the loop goes on after the sleep
StoreErrorContinue ==
    /\ pc = "store"
    /\ ~TriggerDue
    /\ ShouldStore(departures_data)
    /\ stops_to_fetch[idx] \in StoreFaultStops
    /\ SleepAndAdvance(cache)
    /\ redis_connection' = FALSE
    /\ completed' = FALSE
    /\ events' = Append(events, SetEvent(stops_to_fetch[idx]))
    /\ UNCHANGED <<all_stop_ids, next_fire, fires, skipped, cycle, cycle_start, api_mode,
                   stops_to_fetch, departures_data, successful_fetches,
                   total_departures_stored, fetched, last_write, mainVars, history>>
    /\ UNCHANGED outsidePoll

\* the set call raises redis.exceptions.ConnectionError (97-100)
StoreConnectionError ==
    /\ pc = "store"
    /\ ~TriggerDue
    /\ ShouldStore(departures_data)
    /\ stops_to_fetch[idx] \in StoreFaultStops
    /\ redis_connection' = FALSE
    /\ completed' = FALSE
    /\ pc' = "finish"
    /\ events' = Append(events, SetEvent(stops_to_fetch[idx]))
    /\ UNCHANGED <<all_stop_ids, schedVars, cycle, cycle_start, api_mode, stops_to_fetch, idx,
                   departures_data, successful_fetches, total_departures_stored, cache,
                   fetched, last_write, mainVars, history>>
    /\ UNCHANGED outsidePoll

\* the set call raises another exception (101-102)
StoreOtherError ==
    /\ pc = "store"
    /\ ~TriggerDue
    /\ ShouldStore(departures_data)
    /\ stops_to_fetch[idx] \in StoreFaultStops
    /\ SleepAndAdvance(cache)
    /\ fetched' = [fetched EXCEPT ![stops_to_fetch[idx]] = "unstored"]
    /\ events' = Append(events, SetEvent(stops_to_fetch[idx]))
    /\ UNCHANGED <<all_stop_ids, next_fire, fires, skipped, cycle, cycle_start, api_mode,
                   redis_connection, stops_to_fetch, departures_data, successful_fetches,
                   total_departures_stored, completed, last_write, mainVars, history>>
    /\ UNCHANGED outsidePoll

\* nothing to store: None or an empty list (103-107)
SkipStore ==
    /\ pc = "store"
    /\ ~TriggerDue
    /\ ~ShouldStore(departures_data)
    /\ SleepAndAdvance(cache)
    /\ UNCHANGED <<all_stop_ids, next_fire, fires, skipped, cycle, cycle_start, api_mode,
                   redis_connection, stops_to_fetch, departures_data, successful_fetches,
                   total_departures_stored, fetched, completed, last_write, mainVars, events,
                   history>>
    /\ UNCHANGED outsidePoll

\* the texts of the keys that are present
Values(c) == [k \in {j \in DOMAIN c : c[j].present} |-> c[k].text]

\* what a run leaves behind: its number, the stops and what their fetches
\* returned, whether every set call it made went through, and the cache
RunRecord ==
    [cycle |-> cycle, stops |-> stops_to_fetch, results |-> history.results,
     stored |-> completed /\ \A s \in DOMAIN fetched : fetched[s] # "unstored",
     written |-> {k \in DOMAIN cache : cache[k].cycle = cycle},
     values |-> Values(cache)]

\* the run logs its counters and returns (112-118); once the scheduler has
\* been told to shut down, shutdown() returns and main ends (176-179)
EndJob(record) ==
    /\ pc = "finish"
    /\ ~TriggerDue
    /\ pc' = IF exit_status = NotExited THEN "idle" ELSE "stopped"
    /\ stops_to_fetch' = <<>>
    /\ idx' = 0
    /\ departures_data' = ReturnedNone
    /\ successful_fetches' = 0
    /\ total_departures_stored' = 0
    /\ fetched' = <<>>
    /\ completed' = TRUE
    /\ events' = <<>>
    /\ history' = [results |-> <<>>, previous |-> record]
    /\ UNCHANGED <<all_stop_ids, schedVars, cycle, cycle_start, api_mode, redis_connection,
                   cache, last_write, mainVars>>
    /\ UNCHANGED outsidePoll

\* a run of the scheduler's job returns
FinishCycle == EndJob(history.previous)

\* main returns after "Scheduler stopped by user." (172-173)
Interrupted == [code |-> 0, logged |-> "Scheduler stopped by user."]

\* KeyboardInterrupt in scheduler.start() (170-179): the main loop of the
\* scheduler is left, so no trigger is processed any more, and
\* scheduler.shutdown() waits for the run under way, if any
Shutdown ==
    /\ SchedulerRunning
    /\ exit_status' = Interrupted
    /\ pc' = IF pc = "idle" THEN "stopped" ELSE pc
    /\ UNCHANGED <<all_stop_ids, schedVars, cycle, cycle_start, api_mode, redis_connection,
                   stops_to_fetch, idx, departures_data, successful_fetches,
                   total_departures_stored, cache, fetched, completed, last_write, startup,
                   events, history>>
    /\ UNCHANGED outsidePoll

\* the expiry times of the keys that are present
ExpiryTimes(c) == {c[k].expires : k \in {j \in DOMAIN c : c[j].present}}

\* with polling stopped, time passes up to the next expiry of a key
Expire ==
    /\ pc = "stopped"
    /\ ExpiryTimes(cache) # {}
    /\ \E t \in ExpiryTimes(cache) :
          /\ \A u \in ExpiryTimes(cache) : t <= u
          /\ now' = t
          /\ cache' = Purge(cache, t)
    /\ UNCHANGED <<all_stop_ids, next_fire, fires, skipped, jobVars, fetched, completed, last_write,
                   mainVars, events, history>>
    /\ UNCHANGED outsidePoll

Next ==
    \/ Main
    \/ Wait
    \/ StartCycle
    \/ SkipTrigger
    \/ FetchStop
    \/ StoreOk
    \/ StoreConnectionError
    \/ StoreOtherError
    \/ SkipStore
    \/ FinishCycle
    \/ Shutdown
    \/ Expire

Spec == Init /\ [][Next]_vars

----------------------------------------------------------------------------
(* SpecDelay: the reader's pipeline on bounded payloads.                   *)

InitDelay ==
    /\ \E list \in ListsUpTo(RecordChoices, MaxRecords), other \in OtherPayloads :
          data_strings = <<Data(JsonDumps(list)), other>>
    /\ DelayIdle
    /\ stage = "input"
    /\ FetchIdle
    /\ PollIdle
    /\ QueryIdle
    /\ LaunchIdle

\* get_regional_departures_df(redis_conn, region_stop_ids)
ReadRegional ==
    /\ stage = "input"
    /\ all_departures' = CollectDepartures(data_strings, 1)
    /\ df' = GetRegionalDeparturesDf(TRUE, RegionStopIds, data_strings)
    /\ stage' = "df"
    /\ UNCHANGED <<data_strings, live_df, kpis, delay_categories, dist>>
    /\ UNCHANGED outsideDelay

\* calculate_regional_kpis(regional_df)
ComputeKpis ==
    /\ stage = "df"
    /\ kpis' = CalculateRegionalKpis(df)
    /\ stage' = "kpis"
    /\ UNCHANGED <<data_strings, all_departures, df, live_df, delay_categories, dist>>
    /\ UNCHANGED outsideDelay

\* get_regional_delay_distribution(regional_df)
ComputeDistribution ==
    /\ stage = "kpis"
    /\ delay_categories' =
          IF IsEmpty(df) \/ "delay_minutes" \notin df.columns THEN <<>> ELSE DelayCategories(df)
    /\ dist' = GetRegionalDelayDistribution(df)
    /\ stage' = "dist"
    /\ UNCHANGED <<data_strings, all_departures, df, live_df, kpis>>
    /\ UNCHANGED outsideDelay

\* get_live_departures_for_stop(redis_conn, first stop)
ReadLive ==
    /\ stage = "dist"
    /\ live_df' = GetLiveDeparturesForStop(TRUE, data_strings[1])
    /\ stage' = "done"
    /\ UNCHANGED <<data_strings, all_departures, df, kpis, delay_categories, dist>>
    /\ UNCHANGED outsideDelay

NextDelay == ReadRegional \/ ComputeKpis \/ ComputeDistribution \/ ReadLive

SpecDelay == InitDelay /\ [][NextDelay]_vars

----------------------------------------------------------------------------
(* SpecFetch: one call of the fetcher on a bounded stop id and response.   *)

InitFetch ==
    /\ f_stop_id \in FetchStopIds
    /\ f_response \in ResponseChoices
    /\ f_url = <<>>
    /\ f_result = ReturnedNone
    /\ f_stage = "call"
    /\ data_strings = <<NoData, NoData>>
    /\ DelayIdle
    /\ stage = "idle"
    /\ PollIdle
    /\ QueryIdle
    /\ LaunchIdle

\* fetch_and_parse_departures(stop_id)
CallFetch ==
    /\ f_stage = "call"
    /\ f_url' = ApiUrl(f_stop_id)
    /\ f_result' = FetchAndParseDepartures(f_stop_id, f_response)
    /\ f_stage' = "returned"
    /\ UNCHANGED <<f_stop_id, f_response>>
    /\ UNCHANGED outsideFetch

NextFetch == CallFetch

SpecFetch == InitFetch /\ [][NextFetch]_vars

----------------------------------------------------------------------------
(* Properties of the delay engine, checked under SpecDelay.                *)

AfterRead == stage \in {"df", "kpis", "dist", "done"}
AfterKpis == stage \in {"kpis", "dist", "done"}
AfterDist == stage \in {"dist", "done"}

\* UTC seconds of a timestamp text, and whether a record's two texts parse
UtcSeconds(v) == (v.hh - v.tz) * 3600 + v.mm * 60 + v.ss
Parses(rec) == rec.scheduled_time.kind = "iso" /\ rec.actual_time.kind = "iso"
DiffSeconds(rec) == UtcSeconds(rec.actual_time) - UtcSeconds(rec.scheduled_time)

\* d is the integer nearest to sec / 60, either neighbour at a tie
NearestMinute(d, sec) == 60 * d - sec <= 30 /\ sec - 60 * d <= 30

\* the records of list with both timestamps parsing come back, in order,
\* as the rows of frame with a defined delay, each delay the nearest minute
RoundedDelays(list, frame) ==
    LET valid == SelectSeq(list, Parses)
        got == SelectSeq(frame.rows, IsDefined)
    IN /\ Len(got) = Len(valid)
       /\ \A i \in 1..Len(valid) :
             /\ got[i] = Row(valid[i], got[i].delay_minutes)
             /\ NearestMinute(got[i].delay_minutes.v, DiffSeconds(valid[i]))

FirstStopList ==
    LET parsed == JsonLoads(data_strings[1].text)
    IN IF parsed.ok /\ parsed.isList THEN parsed.val ELSE <<>>

\* C1: every cached record whose scheduled and actual timestamps both parse
\* gets delay_minutes = the integer nearest to (actual - scheduled) / 60 s
\* (either neighbour at a half-minute tie), in get_regional_departures_df
\* and in get_live_departures_for_stop.
C1_DelayIsNearestMinute ==
    /\ AfterRead => RoundedDelays(all_departures, df)
    /\ stage = "done" => RoundedDelays(FirstStopList, live_df)

C1_Witness ==
    /\ stage = "done"
    /\ \E i, j \in 1..Len(df.rows) :
          df.rows[i].delay_minutes = IntV(1) /\ df.rows[j].delay_minutes = IntV(4)
    /\ \E i \in 1..Len(live_df.rows) : live_df.rows[i].delay_minutes = IntV(1)

\* C2: a record whose scheduled or actual timestamp does not parse stays in
\* the list the delay computation returns, with an undefined delay, so that
\* total_departures counts it and valid_delay_count does not.
C2_UnparseableRetained ==
    AfterKpis =>
        /\ Len(df.rows) = Len(all_departures)
        /\ \A i \in 1..Len(df.rows) :
              /\ df.rows[i] = Row(all_departures[i], df.rows[i].delay_minutes)
              /\ ~Parses(all_departures[i]) => df.rows[i].delay_minutes = NA
        /\ kpis.total_departures = Len(all_departures)
        /\ kpis.valid_delay_count = Len(SelectSeq(all_departures, Parses))

\* the bucket the claim gives an integer delay
ClaimedBucket(d) ==
    IF d <= -2 THEN 1 ELSE IF d <= 3 THEN 2 ELSE IF d <= 10 THEN 3 ELSE 4

\* C3: get_regional_delay_distribution puts every defined delay d in
\* exactly one bucket: early for d <= -2, on-time for -1..3, late for
\* 4..10, very-late for d >= 11.
C3_BucketBoundaries ==
    AfterDist =>
        LET valid == ValidDelays(df)
        IN /\ Len(delay_categories) = Len(valid)
           /\ \A i \in 1..Len(valid) :
                 delay_categories[i] = Str(DELAY_BUCKET_LABELS[ClaimedBucket(valid[i])])

C3_Witness ==
    /\ stage = "dist"
    /\ \E i, j \in 1..Len(delay_categories) :
          /\ ValidDelays(df)[i] = -2 /\ delay_categories[i] = Str(DELAY_BUCKET_LABELS[1])
          /\ ValidDelays(df)[j] = -1 /\ delay_categories[j] = Str(DELAY_BUCKET_LABELS[2])

\* C4: the distribution always lists the four bucket labels in the order
\* early, on-time, late, very-late (zero-filled), and its counts sum to the
\* number of records with a defined delay.
C4_FourBucketsSumToValid ==
    AfterDist =>
        /\ Len(dist) = 4
        /\ \A k \in 1..Len(dist) : dist[k].category = DELAY_BUCKET_LABELS[k]
        /\ SumSeq([k \in 1..Len(dist) |-> dist[k].count], 1)
              = Cardinality({i \in 1..Len(df.rows) : df.rows[i].delay_minutes.kind = "int"})

C4_Witness ==
    /\ stage = "dist"
    /\ Len(dist) = 4
    /\ dist[1].count = 0 /\ dist[2].count = 2 /\ dist[3].count = 1 /\ dist[4].count = 0

\* C5: on_time_percent = 100 * (defined delays in -1..3) / valid_delay_count
\* when valid_delay_count > 0; avg_delay and on_time_percent are both None
\* when valid_delay_count = 0.
C5_OnTimePercent ==
    AfterKpis =>
        LET inWindow == Cardinality({i \in 1..Len(df.rows) :
                            /\ df.rows[i].delay_minutes.kind = "int"
                            /\ df.rows[i].delay_minutes.v >= -1
                            /\ df.rows[i].delay_minutes.v <= 3})
            n == kpis.valid_delay_count
        IN /\ n = Cardinality({i \in 1..Len(df.rows) : df.rows[i].delay_minutes.kind = "int"})
           /\ n > 0 => /\ kpis.on_time_percent.kind = "num"
                       /\ kpis.on_time_percent.n * n = 100 * inWindow * kpis.on_time_percent.d
           /\ n = 0 => kpis.avg_delay = None /\ kpis.on_time_percent = None

C5_Witness ==
    /\ stage = "kpis"
    /\ kpis.valid_delay_count = 3
    /\ kpis.on_time_percent = Num(200, 3)
    /\ \E i \in 1..Len(df.rows) : df.rows[i].delay_minutes = IntV(3)

----------------------------------------------------------------------------
(* Properties of the fetcher, checked under SpecFetch.                     *)

\* the request came back with a JSON object whose "Abfahrten" is missing or
\* a list of objects: nothing fails
RequestSucceeds(resp) ==
    /\ resp.kind = "response" /\ resp.status < 400 /\ resp.json /\ resp.object
    /\ resp.field \in {"missing", "list"}
    /\ \A i \in 1..Len(resp.abfahrten) : resp.abfahrten[i].isDict

\* C6: fetch_and_parse_departures never raises; it returns None when the
\* request fails (timeout, HTTP error status, network error, malformed
\* JSON, any other exception) and a list when it succeeds, the empty list
\* for a response without the departures field.
C6_FetchFailsClosed ==
    f_stage = "returned" =>
        /\ ~f_result.raised
        /\ f_result.isNone <=> ~RequestSucceeds(f_response)
        /\ RequestSucceeds(f_response) =>
              Len(f_result.list) = Len(f_response.abfahrten)
        /\ RequestSucceeds(f_response) /\ f_response.field = "missing" =>
              f_result = Returned(<<>>) /\ f_result # ReturnedNone

C6_Witness ==
    /\ f_stage = "returned"
    /\ f_response.kind = "response" /\ f_response.status = 200
    /\ f_response.object /\ f_response.field = "missing"
    /\ f_result = Returned(<<>>)

ThirdSegment(id) == Split(id, ":", <<>>)[3]
IsCompound(id) == StartsWith(id, <<"d", "e", ":">>) /\ Len(Split(id, ":", <<>>)) >= 3

\* C7: a stop id of the compound form beginning with "de:" is requested
\* under its third colon-separated segment alone; a bare numeric id is
\* requested unchanged.
C7_ThirdSegmentRequested ==
    f_stage = "returned" =>
        /\ IsCompound(f_stop_id) => f_url = <<ApiEndpoint>> \o ThirdSegment(f_stop_id)
        /\ ~StartsWith(f_stop_id, <<"d", "e", ":">>) => f_url = <<ApiEndpoint>> \o f_stop_id

----------------------------------------------------------------------------
(* Properties of the polling process, checked under Spec.                  *)

\* the keys whose value or expiry this step set
KeysWritten ==
    {k \in DOMAIN cache' : cache'[k].present /\ (k \notin DOMAIN cache \/ cache'[k] # cache[k])}

\* C8: every cache write of the polling loop goes to the key "departures:"
\* + stop_id of the stop just fetched, which is the key the reader builds
\* for that stop; it stores the JSON text of the list just fetched and
\* expires FETCH_INTERVAL + 30 seconds later.
C8_WriteKeyValueExpiry ==
    [][\A k \in KeysWritten :
          /\ pc = "store"
          /\ k = ReaderKey(stops_to_fetch[idx])
          /\ JsonLoads(cache'[k].text).ok /\ JsonLoads(cache'[k].text).isList
          /\ JsonLoads(cache'[k].text).val = departures_data.list
          /\ cache'[k].expires = now + (FETCH_INTERVAL_SECONDS + 30) * TicksPerSecond]_vars

C8_Witness ==
    /\ last_write.stop = G510_11_1
    /\ ReaderKey(G510_11_1) \in DOMAIN cache
    /\ cache[ReaderKey(G510_11_1)].present
    /\ cache[ReaderKey(G510_11_1)].text = last_write.text
    /\ ReaderKey(S510) \in DOMAIN cache
    /\ Len(JsonLoads(cache[ReaderKey(S510)].text).val) = 2

RunCompleted == pc = "finish" /\ completed /\ Len(stops_to_fetch) > 0

\* C9: a polling cycle that runs to completion overwrites the snapshot of
\* every stop of its working set, so that no working-set key still holds a
\* value of an earlier cycle.
C9_EveryStopOverwritten ==
    RunCompleted =>
        \A s \in Range(stops_to_fetch) :
            ReaderKey(s) \in DOMAIN cache /\ cache[ReaderKey(s)].present
                => cache[ReaderKey(s)].cycle = cycle

\* C9 as amended: a completed cycle has written the key of each stop whose
\* fetch gave a non-empty list and whose write went through; the key of a
\* stop whose fetch failed or gave an empty list, or whose write raised, was
\* not written in this cycle.
C9_NonEmptyFetchesOverwrite ==
    RunCompleted =>
        \A s \in Range(stops_to_fetch) :
            /\ fetched[s] # "pending"
            /\ fetched[s] = "list" =>
                  /\ ReaderKey(s) \in DOMAIN cache
                  /\ cache[ReaderKey(s)].cycle = cycle
            /\ fetched[s] \in {"none", "empty", "unstored"} =>
                  (ReaderKey(s) \in DOMAIN cache => cache[ReaderKey(s)].cycle < cycle)

C9_Witness ==
    /\ RunCompleted
    /\ fetched[S510] = "empty"
    /\ ReaderKey(S510) \in DOMAIN cache
    /\ cache[ReaderKey(S510)].present
    /\ cache[ReaderKey(S510)].cycle = cycle - 1
    /\ G510_11_1 \in Range(stops_to_fetch)
    /\ fetched[G510_11_1] = "list"
    /\ cache[ReaderKey(G510_11_1)].present

\* C10: when a stop is written in two consecutive cycles, the snapshot of
\* the first cycle is still present at the moment the second cycle rewrites
\* it.
C10_PresentAtRewrite ==
    (/\ skipped = 0
     /\ last_write.cycle >= 2
     /\ last_write.replaced.cycle = last_write.cycle - 1)
        => last_write.replaced.present

\* C10 as amended: a snapshot written in a cycle is still unexpired when
\* the next refresh is due, FETCH_INTERVAL after the start of that cycle.
C10_OutlivesNextTrigger ==
    \A k \in DOMAIN cache :
        cache[k].present /\ cache[k].cycle = cycle /\ pc # "idle"
            => cache[k].expires > cycle_start + IntervalTicks

C10_Witness ==
    /\ last_write.cycle = 2
    /\ cycle = 2 /\ pc = "fetch"
    /\ last_write.replaced.cycle = 1
    /\ last_write.replaced.present
    /\ cache[last_write.key].present
    /\ cache[last_write.key].cycle = 2

StopsInOrder(evs) == [i \in 1..Len(evs) |-> evs[i].stop]
FetchEvents == SelectSeq(events, LAMBDA e : e.op = "fetch")
SetEvents == SelectSeq(events, LAMBDA e : e.op = "set")
ExpiryTicks == (FETCH_INTERVAL_SECONDS + 30) * TicksPerSecond

\* C11: a snapshot a reader gets for a stop at time now was written less
\* than FETCH_INTERVAL + 30 s before; once polling has stopped a key is
\* absent from FETCH_INTERVAL + 30 s after its last write on, with no
\* delete call of the program.
C11_SnapshotAgeBounded ==
    \A k \in DOMAIN cache :
        /\ RedisGet(cache, k).present =>
              /\ cache[k].at <= now
              /\ now < cache[k].at + ExpiryTicks
              /\ RedisGet(cache, k).text = cache[k].text
        /\ pc = "stopped" /\ now >= cache[k].at + ExpiryTicks => RedisGet(cache, k) = NoData

C11_Witness ==
    /\ pc = "stopped"
    /\ ReaderKey(S510) \in DOMAIN cache
    /\ RedisGet(cache, ReaderKey(S510)) = NoData
    /\ now = cache[ReaderKey(S510)].at + ExpiryTicks
    /\ ReaderKey(S515) \in DOMAIN cache
    /\ RedisGet(cache, ReaderKey(S515)).present

\* C12: a run of the job starts only while no run is under way, and only at
\* a fire time of the trigger; a trigger that fires during a run is dropped
\* and leaves the run alone, and every trigger fired has either started a
\* run or been dropped, so none is kept for later.
C12_OneRunAtATime ==
    [][/\ cycle' # cycle => pc = "idle" /\ now = next_fire /\ cycle' = cycle + 1
       /\ skipped' # skipped =>
             pc \in {"fetch", "store", "finish"} /\ cycle' = cycle /\ UNCHANGED jobVars
       /\ fires' = cycle' + skipped']_vars

C12_Witness ==
    /\ skipped = 1
    /\ cycle = 2
    /\ pc = "fetch"
    /\ cycle_start = 3 * IntervalTicks

NoStopIdsResolved == ~startup.query.ok \/ Len(startup.query.rows) = 0

\* C13: when at startup the database or Redis cannot be reached, or no stop
\* id is resolved for the region, the process exits with a non-zero status
\* and a logged reason, before the scheduler starts and before any fetch or
\* cache write.
C13_StartupFailureExits ==
    (/\ pc \notin {"off", "main"}
     /\ startup.db # "ok" \/ startup.redis # "ok" \/ NoStopIdsResolved)
        => /\ pc = "exited"
           /\ exit_status.code # 0
           /\ exit_status.logged # ""
           /\ fires = 0 /\ cycle = 0 /\ cache = <<>> /\ events = <<>>

AllFetchedEmpty ==
    RunCompleted /\ \A s \in Range(stops_to_fetch) : fetched[s] = "empty"

\* what the region's reader gets from the cache for the working set
CachedStrings == [i \in 1..Len(stops_to_fetch) |-> RedisGet(cache, ReaderKey(stops_to_fetch[i]))]

\* C15: a run in which every stop gives an empty list ends without a set
\* call; and on empty data calculate_regional_kpis gives undefined
\* avg_delay and on_time_percent with zero counts, and
\* get_regional_delay_distribution gives the four buckets with count 0.
C15_EmptyEverywhere ==
    AllFetchedEmpty =>
        /\ SetEvents = <<>>
        /\ successful_fetches = 0 /\ total_departures_stored = 0
        /\ \A k \in DOMAIN cache : cache[k].cycle < cycle
        /\ LET frame == GetRegionalDeparturesDf(TRUE, stops_to_fetch, CachedStrings)
           IN IsEmpty(frame) =>
                 /\ CalculateRegionalKpis(frame) =
                       [avg_delay |-> None, on_time_percent |-> None,
                        total_departures |-> 0, valid_delay_count |-> 0]
                 /\ Len(GetRegionalDelayDistribution(frame)) = 4
                 /\ \A b \in 1..4 :
                       GetRegionalDelayDistribution(frame)[b] =
                          [category |-> DELAY_BUCKET_LABELS[b], count |-> 0]

C15_Witness ==
    /\ AllFetchedEmpty
    /\ api_mode = "quiet"
    /\ cycle = 1
    /\ IsEmpty(GetRegionalDeparturesDf(TRUE, stops_to_fetch, CachedStrings))

\* C17: the records of the latest write, read back from the key before it
\* expires, have the line, destination, scheduled time and actual time the
\* fetcher returned, in the same order.
C17_RoundTrip ==
    (/\ last_write # NoWrite
     /\ RedisGet(cache, ReaderKey(last_write.stop)).present)
        => LET got == CollectDepartures(<<RedisGet(cache, ReaderKey(last_write.stop))>>, 1)
           IN /\ Len(got) = Len(last_write.list)
              /\ \A i \in 1..Len(got) :
                    /\ got[i].line = last_write.list[i].line
                    /\ got[i].destination = last_write.list[i].destination
                    /\ got[i].scheduled_time = last_write.list[i].scheduled_time
                    /\ got[i].actual_time = last_write.list[i].actual_time

C17_Witness ==
    /\ last_write.stop = S510
    /\ Len(last_write.list) = 2
    /\ last_write.list[2].destination = Null
    /\ RedisGet(cache, ReaderKey(S510)).present
    /\ Len(CollectDepartures(<<RedisGet(cache, ReaderKey(S510))>>, 1)) = 2

\* C19: in a run not left by break, the stops fetched so far are the first
\* stops of the working set, each once and in order; every set call comes
\* right after the fetch of its stop; at the end every stop has been
\* fetched, whatever the fetches of the stops before it gave.
C19_EachStopOnceInOrder ==
    (pc \in {"fetch", "store", "finish"} /\ completed /\ Len(stops_to_fetch) > 0)
        => /\ Len(FetchEvents) = (IF pc = "store" THEN idx ELSE idx - 1)
           /\ StopsInOrder(FetchEvents) = SubSeq(stops_to_fetch, 1, Len(FetchEvents))
           /\ \A i \in 1..Len(events) :
                 events[i].op = "set" => i > 1 /\ events[i - 1] = FetchEvent(events[i].stop)
           /\ pc = "finish" => StopsInOrder(FetchEvents) = stops_to_fetch

C19_Witness ==
    /\ RunCompleted
    /\ fetched[S510] = "none"
    /\ G510_11_1 \in Range(stops_to_fetch)
    /\ fetched[G510_11_1] = "empty"
    /\ Len(FetchEvents) = Len(stops_to_fetch)
    /\ Len(SetEvents) = Len(stops_to_fetch) - 2

\* C20: once a set call has raised a connection error the run is over: the
\* failed set call is the last call of the run, made once, the stops after
\* it are neither fetched nor written, and the job's connection is None.
C20_ConnectionErrorEndsRun ==
    ~completed =>
        /\ pc = "finish"
        /\ ~redis_connection
        /\ Len(events) > 0
        /\ events[Len(events)] = SetEvent(stops_to_fetch[idx])
        /\ Len(SelectSeq(events, LAMBDA e : e = SetEvent(stops_to_fetch[idx]))) = 1
        /\ Len(FetchEvents) = idx
        /\ \A j \in idx..Len(stops_to_fetch) :
              ReaderKey(stops_to_fetch[j]) \in DOMAIN cache
                 => cache[ReaderKey(stops_to_fetch[j])].cycle < cycle

C20_Witness ==
    /\ ~completed
    /\ pc = "finish"
    /\ idx < Len(stops_to_fetch)
    /\ cycle = 2
    /\ RedisGet(cache, ReaderKey(stops_to_fetch[idx])).present

----------------------------------------------------------------------------
(* Further properties of the reader, checked under SpecDelay.              *)

\* a payload that is there but is no JSON text, or no JSON list
Malformed(ds) ==
    Truthy(ds) /\ (~JsonLoads(ds.text).ok \/ ~JsonLoads(ds.text).isList)

\* C14: when the payload of one stop is no JSON or no list,
\* get_regional_departures_df returns the frame it returns for the other
\* stop alone: the malformed payload adds nothing, and the other stop's
\* records are all collected and those with two parsable times are rows.
C14_MalformedPayloadSkipped ==
    (AfterRead /\ Malformed(data_strings[2]))
        => /\ all_departures = FirstStopList
           /\ df = GetRegionalDeparturesDf(TRUE, <<S510>>, <<data_strings[1]>>)
           /\ RoundedDelays(FirstStopList, df)

C14_Witness ==
    /\ stage = "df"
    /\ data_strings[2] = Data(<<Punct("[")>>)
    /\ Len(FirstStopList) = 2
    /\ Len(df.rows) = 2
    /\ df.rows[1].delay_minutes = IntV(3)

EndToEndList == <<TimedDeparture(90), TimedDeparture(30)>>

\* C18: for one stop with two records, 90 s and 30 s late, and nothing from
\* the other stop, the delays are 2 and 0 (or 1), the four bucket counts
\* sum to 2 with each record in the bucket of the boundary rule, and
\* on_time_percent is 100 * (delays within [-1, 3]) / 2.
C18_EndToEnd ==
    (/\ AfterDist
     /\ FirstStopList = EndToEndList
     /\ Len(all_departures) = 2)
        => LET delays == ValidDelays(df)
               on_time == Cardinality({i \in 1..2 : delays[i] >= -1 /\ delays[i] <= 3})
           IN /\ Len(delays) = 2
              /\ delays[1] = 2
              /\ delays[2] \in {0, 1}
              /\ SumSeq([b \in 1..4 |-> dist[b].count], 1) = 2
              /\ \A b \in 1..4 :
                    dist[b].count = Cardinality({i \in 1..2 : ClaimedBucket(delays[i]) = b})
              /\ kpis.on_time_percent = Num(100 * on_time, 2)
              /\ kpis.total_departures = 2 /\ kpis.valid_delay_count = 2

C18_Witness ==
    /\ stage = "done"
    /\ FirstStopList = EndToEndList
    /\ Len(all_departures) = 2
    /\ ValidDelays(df) = <<2, 0>>
    /\ dist[2].count = 2
    /\ kpis.on_time_percent = Num(200, 2)

----------------------------------------------------------------------------
(* SpecQuery: the static queries on a database that answers or fails.      *)

\* the table whose queries raise, none of them, or all of them
DbFaults == {"none", "routes", "stops", "trips", "down"}
Databases == [fault : DbFaults, filled : BOOLEAN]

Raises(db, tables) == db.fault = "down" \/ db.fault \in tables

\* SELECT COUNT(*) of a table
CountOutcome(db, table, n) ==
    IF Raises(db, {table}) THEN QueryFails ELSE QueryRows(<<IntV(IF db.filled THEN n ELSE 0)>>)

\* route_type, COUNT(*) ... GROUP BY route_type ORDER BY route_type
RouteTypeOutcome(db) ==
    IF Raises(db, {"routes"}) THEN QueryFails
    ELSE IF ~db.filled THEN QueryRows(<<>>)
    ELSE QueryRows(<<[route_type |-> 1, count |-> 3], [route_type |-> 800, count |-> 1]>>)

\* the routes with their trip counts, most trips first, at most top_n rows
TopRoutesOutcome(db, top_n) ==
    LET rows == <<[route_short_name |-> Str("U1"), route_long_name |-> Str("Langwasser"),
                   trip_count |-> 7],
                  [route_short_name |-> Null, route_long_name |-> Null, trip_count |-> 2]>>
    IN IF Raises(db, {"routes", "trips"}) THEN QueryFails
       ELSE IF ~db.filled THEN QueryRows(<<>>)
       ELSE QueryRows(SubSeq(rows, 1, Min(top_n, Len(rows))))

StopLocationsOutcome(db) ==
    IF Raises(db, {"stops"}) THEN QueryFails
    ELSE IF ~db.filled THEN QueryRows(<<>>)
    ELSE QueryRows(<<[stop_id |-> G510_11_1, stop_name |-> Str("Hbf"), stop_lat |-> 49,
                      stop_lon |-> 11]>>)

\* stop_id LIKE the region's prefix
RegionStopsOutcome(db, region) ==
    IF Raises(db, {"stops"}) THEN QueryFails
    ELSE IF db.filled /\ region = "Nuremberg" THEN QueryRows(<<G510_11_1, G704_1>>)
    ELSE QueryRows(<<>>)

RegionNames == {"Nuremberg", "Fürth", "Erlangen", "Bamberg"}
TopNChoices == {1, 15}

InitQuery ==
    /\ engine \in BOOLEAN
    /\ database \in Databases
    /\ region_name \in RegionNames
    /\ called = {}
    /\ stats = NoStats
    /\ route_type_counts = GetRouteTypeCounts(FALSE, QueryFails)
    /\ top_routes = GetTopRoutesByTrips(FALSE, 0, QueryFails)
    /\ stops_locations = GetAllStopsLocations(FALSE, QueryFails)
    /\ region_stop_ids = <<>>
    /\ data_strings = <<NoData, NoData>>
    /\ DelayIdle
    /\ stage = "idle"
    /\ FetchIdle
    /\ PollIdle
    /\ LaunchIdle

CallOverviewStats ==
    /\ "get_overview_stats" \notin called
    /\ stats' = GetOverviewStats(engine, CountOutcome(database, "routes", 4),
                                 CountOutcome(database, "stops", 2),
                                 CountOutcome(database, "trips", 9))
    /\ called' = called \cup {"get_overview_stats"}
    /\ UNCHANGED <<engine, database, region_name, route_type_counts, top_routes,
                   stops_locations, region_stop_ids>>
    /\ UNCHANGED outsideQuery

CallRouteTypeCounts ==
    /\ "get_route_type_counts" \notin called
    /\ route_type_counts' = GetRouteTypeCounts(engine, RouteTypeOutcome(database))
    /\ called' = called \cup {"get_route_type_counts"}
    /\ UNCHANGED <<engine, database, region_name, stats, top_routes, stops_locations,
                   region_stop_ids>>
    /\ UNCHANGED outsideQuery

CallTopRoutesByTrips ==
    /\ "get_top_routes_by_trips" \notin called
    /\ \E top_n \in TopNChoices :
          top_routes' = GetTopRoutesByTrips(engine, top_n, TopRoutesOutcome(database, top_n))
    /\ called' = called \cup {"get_top_routes_by_trips"}
    /\ UNCHANGED <<engine, database, region_name, stats, route_type_counts, stops_locations,
                   region_stop_ids>>
    /\ UNCHANGED outsideQuery

CallAllStopsLocations ==
    /\ "get_all_stops_locations" \notin called
    /\ stops_locations' = GetAllStopsLocations(engine, StopLocationsOutcome(database))
    /\ called' = called \cup {"get_all_stops_locations"}
    /\ UNCHANGED <<engine, database, region_name, stats, route_type_counts, top_routes,
                   region_stop_ids>>
    /\ UNCHANGED outsideQuery

CallStopsByRegion ==
    /\ "get_stops_by_region" \notin called
    /\ region_stop_ids' =
          GetStopsByRegion(engine, region_name, RegionStopsOutcome(database, region_name))
    /\ called' = called \cup {"get_stops_by_region"}
    /\ UNCHANGED <<engine, database, region_name, stats, route_type_counts, top_routes,
                   stops_locations>>
    /\ UNCHANGED outsideQuery

NextQuery ==
    \/ CallOverviewStats
    \/ CallRouteTypeCounts
    \/ CallTopRoutesByTrips
    \/ CallAllStopsLocations
    \/ CallStopsByRegion

SpecQuery == InitQuery /\ [][NextQuery]_vars

----------------------------------------------------------------------------
(* Properties of the static queries, checked under SpecQuery.              *)

\* C16: with no database handle, or with a failing query, each static
\* query returns its empty result: 'N/A' for the counts (for each count
\* from the failing one on, when a later count fails), a frame without
\* rows, or the empty list of stop ids.
C16_EmptyWhenUnavailable ==
    /\ "get_overview_stats" \in called
          => /\ ~engine \/ Raises(database, {"routes"}) => stats = NoStats
             /\ Raises(database, {"stops"}) => stats.total_stops = Str("N/A")
             /\ Raises(database, {"stops", "trips"}) => stats.total_trips = Str("N/A")
    /\ ("get_route_type_counts" \in called /\ (~engine \/ Raises(database, {"routes"})))
          => route_type_counts.rows = <<>>
    /\ ("get_top_routes_by_trips" \in called
           /\ (~engine \/ Raises(database, {"routes", "trips"})))
          => top_routes.rows = <<>>
    /\ ("get_all_stops_locations" \in called /\ (~engine \/ Raises(database, {"stops"})))
          => stops_locations.rows = <<>>
    /\ ("get_stops_by_region" \in called /\ (~engine \/ Raises(database, {"stops"})))
          => region_stop_ids = <<>>

----------------------------------------------------------------------------
(* SpecJob: fetch_nuremberg_stops_job called run after run without the     *)
(* scheduler, with main's stop list and with a connection or None.         *)

\* calls of the job that are followed
MaxCalls == 2

\* the API answers at once in these runs
JobApiModes == {"fast", "quiet"}

InitJob ==
    /\ all_stop_ids \in StopIdLists
    /\ now = 0
    /\ next_fire = IntervalTicks
    /\ fires = MaxFires
    /\ skipped = 0
    /\ pc = "idle"
    /\ cycle = 0
    /\ cycle_start = 0
    /\ api_mode = "fast"
    /\ redis_connection = redis_conn
    /\ stops_to_fetch = <<>>
    /\ idx = 0
    /\ departures_data = ReturnedNone
    /\ successful_fetches = 0
    /\ total_departures_stored = 0
    /\ cache = <<>>
    /\ fetched = <<>>
    /\ completed = TRUE
    /\ last_write = NoWrite
    /\ startup = [db |-> "ok", redis |-> "ok", query |-> QueryFails]
    /\ exit_status = NotExited
    /\ events = <<>>
    /\ history = NoHistory
    /\ data_strings = <<NoData, NoData>>
    /\ DelayIdle
    /\ stage = "idle"
    /\ FetchIdle
    /\ QueryIdle
    /\ LaunchIdle

\* fetch_nuremberg_stops_job(all_stop_ids, connection) is called (39-71)
CallJob ==
    /\ pc = "idle"
    /\ cycle < MaxCalls
    /\ api_mode' \in JobApiModes
    /\ \E connection \in BOOLEAN : BeginJob(all_stop_ids, connection)
    /\ UNCHANGED <<all_stop_ids, schedVars, cache, last_write, mainVars>>
    /\ UNCHANGED outsidePoll

\* the run returns (112-118) and is put on record
ReturnJob == EndJob(RunRecord)

NextJob ==
    \/ CallJob
    \/ FetchStop
    \/ StoreOk
    \/ StoreConnectionError
    \/ StoreOtherError
    \/ SkipStore
    \/ ReturnJob

SpecJob == InitJob /\ [][NextJob]_vars

----------------------------------------------------------------------------
(* Reconnection at the start of a run.                                     *)

ReconnectEvents == SelectSeq(events, LAMBDA e : e.op = "reconnect")

\* C21: after a cycle in which a cache write failed with a connection
\* error, the next scheduled cycle begins with exactly one reconnection
\* attempt to the cache, before any fetch is issued.
C21_ReconnectAfterConnectionError ==
    [][(cycle' = cycle + 1 /\ ~redis_connection)
          => /\ Len(SelectSeq(events', LAMBDA e : e.op = "reconnect")) = 1
             /\ \A i \in 1..Len(events') : events'[i].op # "fetch"]_vars

----------------------------------------------------------------------------
(* Further properties of the polling process, checked under Spec.          *)

\* C23: when the fetch of a stop returned None or an empty list, the step
\* of the loop for that stop makes no cache operation: no set call is
\* logged, every key keeps its value and its expiry time (a key is dropped
\* only when its own expiry time is reached), and the cache after the step
\* is the same whether the fetch gave None or [].
C23_NoCacheOperation ==
    [][(pc = "store" /\ (departures_data.isNone \/ Len(departures_data.list) = 0))
          => /\ SelectSeq(events', LAMBDA e : e.op = "set") = SetEvents
             /\ last_write' = last_write
             /\ DOMAIN cache' = DOMAIN cache
             /\ \A k \in DOMAIN cache :
                   cache'[k] = IF cache[k].present /\ cache[k].expires <= now'
                               THEN Expired(cache[k].at, cache[k].cycle)
                               ELSE cache[k]]_vars

C23_Witness ==
    /\ pc = "fetch"
    /\ idx = 2
    /\ stops_to_fetch[1] = S510
    /\ fetched[S510] = "none"
    /\ cycle = 2
    /\ RedisGet(cache, ReaderKey(S510)).present
    /\ cache[ReaderKey(S510)].cycle = 1
    /\ cache[ReaderKey(S510)].expires > now

\* the place of an element in a list without duplicates
Position(list, x) == CHOOSE i \in 1..Len(list) : list[i] = x

\* C24: the working set a run starts with begins with 510, 546, 3151;
\* after them come the other ids of the stop list in the order they have
\* there, none left out before one that is taken; it holds at most 50 ids,
\* all of the stop list and no id twice.
C24_WorkingSet ==
    (pc = "fetch" /\ idx = 1) =>
        LET rest == SubSeq(stops_to_fetch, 4, Len(stops_to_fetch))
            place == [i \in 1..Len(rest) |-> Position(all_stop_ids, rest[i])]
            last == IF Len(rest) = 0 THEN 0 ELSE place[Len(rest)]
        IN /\ SubSeq(stops_to_fetch, 1, 3) = <<S510, S546, S3151>>
           /\ Len(stops_to_fetch) = (IF Len(all_stop_ids) <= 50 THEN Len(all_stop_ids) ELSE 50)
           /\ Range(stops_to_fetch) \subseteq Range(all_stop_ids)
           /\ Cardinality(Range(stops_to_fetch)) = Len(stops_to_fetch)
           /\ Range(rest) \cap {S510, S546, S3151} = {}
           /\ \A i \in 1..(Len(rest) - 1) : place[i] < place[i + 1]
           /\ Cardinality({p \in 1..last : all_stop_ids[p] \notin {S510, S546, S3151}})
                 = Len(rest)

C24_Witness ==
    /\ pc = "finish"
    /\ Len(all_stop_ids) > 50
    /\ Len(stops_to_fetch) = 50
    /\ stops_to_fetch[4] = S511
    /\ stops_to_fetch[50] = S512
    /\ S513 \notin Range(stops_to_fetch)
    /\ Len(FetchEvents) = 50

\* a step of the run under way
JobStep ==
    FetchStop \/ StoreOk \/ StoreConnectionError \/ StoreOtherError \/ SkipStore \/ FinishCycle

\* the records of a cached text, when it is the JSON text of a non-empty
\* list of records that have all five keys
IsSnapshot(text) ==
    LET parsed == JsonLoads(text)
    IN /\ parsed.ok /\ parsed.isList
       /\ Len(parsed.val) > 0
       /\ \A i \in 1..Len(parsed.val) : DOMAIN parsed.val[i] = Range(RecordKeys)

\* C25: once the polling process has been interrupted no run is started and
\* no trigger is processed; a run under way can always take its next step,
\* keeps its place in the working set or moves on, and ends in the process
\* having stopped; and every key present when the process has stopped holds
\* the complete list of one fetch.
C25_InterruptStopsPolling ==
    /\ [][exit_status = Interrupted
             => /\ cycle' = cycle /\ fires' = fires /\ skipped' = skipped
                /\ exit_status' = Interrupted
                /\ pc' # "idle"
                /\ idx' >= idx \/ pc' = "stopped"
                /\ pc = "finish" /\ pc' # pc => pc' = "stopped"
                /\ pc = "stopped" => pc' = "stopped" /\ DOMAIN cache' = DOMAIN cache]_vars
    /\ [](exit_status = Interrupted
             => /\ pc \in {"fetch", "store", "finish", "stopped"}
                /\ pc # "stopped" => ENABLED JobStep
                /\ pc = "stopped" =>
                      \A k \in DOMAIN cache : cache[k].present => IsSnapshot(cache[k].text))

\* a run that went on for a whole interval past a fire time that was not
\* processed any more, and fetched every stop
C25_Witness ==
    /\ exit_status = Interrupted
    /\ pc = "finish"
    /\ completed
    /\ fires < MaxFires
    /\ now >= next_fire + IntervalTicks
    /\ Len(FetchEvents) = Len(stops_to_fetch)
    /\ Len(SetEvents) > 0

\* C27: during a run successful_fetches is the number of keys written in
\* this run; it is at most the number of stops fetched so far, which is at
\* most 50; total_departures_stored is at least successful_fetches, so that
\* no run ends with successful_fetches > 0 and total_departures_stored = 0.
C27_CountersAgree ==
    pc \in {"fetch", "store", "finish"} =>
        /\ successful_fetches = Cardinality({k \in DOMAIN cache : cache[k].cycle = cycle})
        /\ successful_fetches = Cardinality({i \in 1..Len(SetEvents) :
                                   fetched[SetEvents[i].stop] = "list"
                                   /\ (completed \/ i < Len(SetEvents))})
        /\ successful_fetches <= Len(FetchEvents)
        /\ Len(FetchEvents) <= Len(stops_to_fetch)
        /\ Len(stops_to_fetch) <= 50
        /\ total_departures_stored >= successful_fetches
        /\ pc = "finish" => ~(successful_fetches > 0 /\ total_departures_stored = 0)

C27_Witness ==
    /\ pc = "finish"
    /\ Len(stops_to_fetch) = 50
    /\ fetched[S510] = "unstored"
    /\ successful_fetches = 49
    /\ total_departures_stored = 49

----------------------------------------------------------------------------
(* Two runs one after the other, checked under SpecJob.                    *)

\* this run and the one before it fetched every stop of the same working
\* set and got the same from the API for every stop
SameResponsesTwice ==
    /\ pc = "finish"
    /\ cycle = 2
    /\ Len(stops_to_fetch) > 0
    /\ Len(history.results) = Len(stops_to_fetch)
    /\ history.previous.cycle = cycle - 1
    /\ history.previous.stops = stops_to_fetch
    /\ history.previous.results = history.results

\* the second of two such runs wrote the keys the first wrote, and every
\* key present after both holds what it held after the first
SameAsOneRun ==
    /\ {k \in DOMAIN cache : cache[k].cycle = cycle} = history.previous.written
    /\ \A k \in DOMAIN cache :
          cache[k].present /\ k \in DOMAIN history.previous.values
             => cache[k].text = history.previous.values[k]

----------------------------------------------------------------------------
(* The on-time window and the on-time bucket, checked under SpecDelay.     *)

\* C28: the count of the on-time bucket of get_regional_delay_distribution
\* is the number of defined delays calculate_regional_kpis counts as on
\* time, on_time_percent * valid_delay_count / 100.
C28_BucketMatchesKpi ==
    AfterDist =>
        LET n == kpis.valid_delay_count
        IN /\ Len(dist) = 4
           /\ dist[2].category = DELAY_BUCKET_LABELS[2]
           /\ n > 0 =>
                 /\ kpis.on_time_percent.kind = "num"
                 /\ kpis.on_time_percent.n * n = 100 * dist[2].count * kpis.on_time_percent.d
           /\ n = 0 => dist[2].count = 0 /\ kpis.on_time_percent = None

C28_Witness ==
    /\ stage = "dist"
    /\ kpis.valid_delay_count = 2
    /\ ValidDelays(df) = <<-1, 4>>
    /\ dist[2].count = 1
    /\ kpis.on_time_percent = Num(100, 2)

----------------------------------------------------------------------------
(* The ids the working set is requested under, checked under Spec.         *)

\* the stops of the working set the API is asked for under the id n
RequestedAs(n) == {i \in 1..Len(stops_to_fetch) : NumericStopId(stops_to_fetch[i]) = n}

\* C29: no two stops of a working set are requested from the API under the
\* same normalized id, so that the departures of one API stop are stored
\* under one key only and counted once by a reader of all keys.
C29_DistinctNormalizedIds ==
    (pc = "fetch" /\ idx = 1) =>
        \A i \in 1..Len(stops_to_fetch) :
            RequestedAs(NumericStopId(stops_to_fetch[i])) = {i}

----------------------------------------------------------------------------
(* SpecLaunch: the launcher (run_nuremberg_dashboard.py).  main registers  *)
(* cleanup as the handler of SIGINT and SIGTERM, checks Redis, starts the  *)
(* two children and then polls them in a loop.  A handler runs between two *)
(* steps of main and returns to where main was.                            *)

\* signals and iterations of the monitoring loop that are followed
MaxSignals == 2
MaxPolls == 3

InitLaunch ==
    /\ NothingLaunched
    /\ l_pc = "check_redis"
    /\ data_strings = <<NoData, NoData>>
    /\ DelayIdle
    /\ stage = "idle"
    /\ FetchIdle
    /\ PollIdle
    /\ QueryIdle

\* process.poll() is None
Running(st, c) == st[c] = "running"

\* what terminate() and wait(timeout=5) come to for each child that is
\* running: it ends in time, or wait raises TimeoutExpired and it is killed
CleanupOutcomes == [ChildNames -> {"terminated", "killed"}]

\* cleanup (95-109): every process of the list that is still running is
\* terminated, and killed when it has not ended 5 seconds later
Cleanup(st, outcome) ==
    [c \in ChildNames |->
        IF c \in Range(processes) /\ Running(st, c) THEN outcome[c] ELSE st[c]]

\* redis_running = check_redis() (121-124)
CheckRedis ==
    /\ l_pc = "check_redis"
    /\ \E redis_running \in BOOLEAN :
          IF redis_running
          THEN l_pc' = "start_data_fetcher" /\ l_code' = l_code
          ELSE l_pc' = "finally" /\ l_code' = 1
    /\ UNCHANGED <<processes, child_state, signals, polls>>
    /\ UNCHANGED outsideLaunch

\* fetcher_running = start_data_fetcher() (51-76, 127-130): Popen raises, or
\* the child is in the list and is or is not running 2 seconds later
StartDataFetcher ==
    /\ l_pc = "start_data_fetcher"
    /\ \E popen \in {"raises", "running", "exited"} :
          /\ processes' = IF popen = "raises" THEN processes
                          ELSE Append(processes, "data_fetcher")
          /\ child_state' = IF popen = "raises" THEN child_state
                       ELSE [child_state EXCEPT !["data_fetcher"] = popen]
          /\ IF popen = "running"
             THEN l_pc' = "start_dashboard" /\ l_code' = l_code
             ELSE l_pc' = "finally" /\ l_code' = 1
    /\ UNCHANGED <<signals, polls>>
    /\ UNCHANGED outsideLaunch

\* dashboard_running = start_dashboard() (78-93, 133-137): when Popen raises
\* main calls cleanup() and returns 1
StartDashboard ==
    /\ l_pc = "start_dashboard"
    /\ \/ /\ processes' = Append(processes, "dashboard")
          /\ child_state' = [child_state EXCEPT !["dashboard"] = "running"]
          /\ l_pc' = "monitor"
          /\ l_code' = l_code
       \/ /\ \E outcome \in CleanupOutcomes : child_state' = Cleanup(child_state, outcome)
          /\ l_pc' = "finally"
          /\ l_code' = 1
          /\ UNCHANGED processes
    /\ UNCHANGED <<signals, polls>>
    /\ UNCHANGED outsideLaunch

\* one iteration of "while True" (143-150): every process is polled, an
\* ended one is logged, and main sleeps 5 seconds
Monitor ==
    /\ l_pc = "monitor"
    /\ polls < MaxPolls
    /\ polls' = polls + 1
    /\ UNCHANGED <<l_pc, processes, child_state, signals, l_code>>
    /\ UNCHANGED outsideLaunch

\* a child ends by itself
ChildExits ==
    /\ l_pc \notin {"off", "exited"}
    /\ \E c \in ChildNames :
          /\ Running(child_state, c)
          /\ child_state' = [child_state EXCEPT ![c] = "exited"]
    /\ UNCHANGED <<l_pc, processes, signals, polls, l_code>>
    /\ UNCHANGED outsideLaunch

\* SIGINT or SIGTERM arrives (116-117): cleanup(signum, frame) runs as the
\* handler and returns, and main goes on where it was
HandleSignal ==
    /\ l_pc \in {"check_redis", "start_data_fetcher", "start_dashboard", "monitor", "finally"}
    /\ Len(signals) < MaxSignals
    /\ \E signum \in {"SIGINT", "SIGTERM"} :
          signals' = Append(signals, [at |-> l_pc, signum |-> signum])
    /\ \E outcome \in CleanupOutcomes : child_state' = Cleanup(child_state, outcome)
    /\ UNCHANGED <<l_pc, processes, polls, l_code>>
    /\ UNCHANGED outsideLaunch

\* finally: cleanup(), and main returns (156-159, 162)
Finally ==
    /\ l_pc = "finally"
    /\ \E outcome \in CleanupOutcomes : child_state' = Cleanup(child_state, outcome)
    /\ l_pc' = "exited"
    /\ UNCHANGED <<processes, signals, polls, l_code>>
    /\ UNCHANGED outsideLaunch

NextLaunch ==
    \/ CheckRedis
    \/ StartDataFetcher
    \/ StartDashboard
    \/ Monitor
    \/ ChildExits
    \/ HandleSignal
    \/ Finally

SpecLaunch == InitLaunch /\ [][NextLaunch]_vars

\* a signal has been handled while main was in its monitoring loop
SignalledWhileMonitoring == \E i \in 1..Len(signals) : signals[i].at = "monitor"

\* C30: once a signal has been handled while the launcher monitors its
\* children, no child of the list is running, the monitoring loop starts no
\* further iteration, and the only step main takes is towards its exit.
C30_SignalEndsLauncher ==
    [][SignalledWhileMonitoring
          => /\ \A c \in Range(processes) : ~Running(child_state, c)
             /\ polls' = polls
             /\ l_pc' # l_pc => l_pc' \in {"finally", "exited"}]_vars

\* the part of C30 that holds: after such a signal no child is running
ChildrenTerminated ==
    SignalledWhileMonitoring => \A c \in Range(processes) : ~Running(child_state, c)

====
